---- MODULE Spec2Model ----
(***************************************************************************)
(* Model of the recommendation and matching engine of pantrychef-api       *)
(* (app/services/recommendation.py) and of the persisted state it reads.   *)
(*                                                                         *)
(* Conventions                                                             *)
(*  - A Python Optional value is a sequence of length 0 (None) or 1.       *)
(*  - A Python str is a sequence of one-character strings; a title is a    *)
(*    sequence of code points, compared as Python compares str.            *)
(*  - Percentages are integers in hundredths of a percent: 66.7 is 6670.   *)
(*    The unrounded quotient matched/total*100 is kept as the pair         *)
(*    <<numerator, denominator>>; for the totals explored the binary       *)
(*    floating point value compares with every threshold used here as the  *)
(*    exact quotient does.                                                 *)
(***************************************************************************)
EXTENDS Integers, Sequences, FiniteSets, TLC

VARIABLES
    recipes,        \* table recipes with recipe_ingredients: sequence, index = id
    pantry_items,   \* table pantry_items: set of rows
    last,           \* Optional record of the latest get_recipe_recommendations call
    prev,           \* Optional record of the call before it, when it had the same inputs
    dietIn,         \* inputs of a direct _check_dietary_compatibility call
    dietOut,        \* Optional result of that call
    pctIn,          \* counts of one recipe's required rows: matched and total
    pctOut,         \* Optional match fields computed from pctIn
    next_id,        \* next value of the id sequences of pantry_items and favorites
    favorites,      \* table favorites: set of rows
    response,       \* Optional record of the latest answered request
    sessions        \* requests in flight: what each has read so far

\* the variables of the pantry, favorites and shopping list requests
apiVars == <<next_id, favorites, response, sessions>>

vars == <<recipes, pantry_items, last, prev, dietIn, dietOut, pctIn, pctOut, next_id, favorites, response, sessions>>

(***************************************************************************)
(* Bounds                                                                  *)
(***************************************************************************)
MaxRows == 3          \* recipe_ingredients rows of a generated recipe
MaxExclude == 2       \* entries of an exclude_allergens list

None == <<>>
Some(x) == <<x>>
IsNone(o) == Len(o) = 0
Val(o) == o[1]

SeqsUpTo(S, n) == UNION {[1..k -> S] : k \in 0..n}

Range(s) == {s[i] : i \in 1..Len(s)}

(***************************************************************************)
(* str helpers: lower(), strip(), split(",")                               *)
(***************************************************************************)
LowerChar(c) ==
    CASE c = "A" -> "a" [] c = "D" -> "d" [] c = "E" -> "e" [] c = "I" -> "i"
      [] c = "N" -> "n" [] c = "O" -> "o" [] c = "P" -> "p" [] c = "R" -> "r"
      [] c = "S" -> "s" [] c = "T" -> "t" [] c = "U" -> "u" [] c = "Y" -> "y"
      [] OTHER -> c

Lower(s) == [i \in 1..Len(s) |-> LowerChar(s[i])]

RECURSIVE LStrip(_)
LStrip(s) == IF s # <<>> /\ Head(s) = " " THEN LStrip(Tail(s)) ELSE s

RECURSIVE RStrip(_)
RStrip(s) ==
    IF s # <<>> /\ s[Len(s)] = " " THEN RStrip(SubSeq(s, 1, Len(s) - 1)) ELSE s

Strip(s) == RStrip(LStrip(s))

\* s.split(","): always at least one piece, empty pieces kept
RECURSIVE SplitComma(_, _, _)
SplitComma(s, cur, acc) ==
    IF s = <<>> THEN Append(acc, cur)
    ELSE IF Head(s) = "," THEN SplitComma(Tail(s), <<>>, Append(acc, cur))
    ELSE SplitComma(Tail(s), Append(cur, Head(s)), acc)

Split(s) == SplitComma(s, <<>>, <<>>)

(***************************************************************************)
(* Ingredient rows (reference data).  Rows written by the seed script or   *)
(* by the test factories do not pass the IngredientCreate validator, so a  *)
(* stored allergens string need not be normalised.                         *)
(***************************************************************************)
Ingredients ==
    <<  \* 1 Tomato
        [is_vegetarian |-> TRUE, is_vegan |-> TRUE, is_gluten_free |-> TRUE,
         allergens |-> None],
        \* 2 Chicken
        [is_vegetarian |-> FALSE, is_vegan |-> FALSE, is_gluten_free |-> TRUE,
         allergens |-> Some(<<>>)],
        \* 3 Cheese, "dairy"
        [is_vegetarian |-> TRUE, is_vegan |-> FALSE, is_gluten_free |-> TRUE,
         allergens |-> Some(<<"d","a","i","r","y">>)],
        \* 4 Peanut noodles, " Nuts, ,soy "
        [is_vegetarian |-> TRUE, is_vegan |-> TRUE, is_gluten_free |-> FALSE,
         allergens |-> Some(<<" ","N","u","t","s",","," ",",","s","o","y"," ">>)]
    >>

IngredientIds == 1..Len(Ingredients)

\* Ingredient.get_allergen_list
get_allergen_list(ingredient) ==
    IF IsNone(ingredient.allergens) \/ Val(ingredient.allergens) = <<>>
    THEN <<>>
    ELSE LET pieces == Split(Val(ingredient.allergens))
             kept == SelectSeq(pieces, LAMBDA a : Strip(a) # <<>>)
         IN [i \in 1..Len(kept) |-> Lower(Strip(kept[i]))]

(***************************************************************************)
(* _check_dietary_compatibility                                            *)
(***************************************************************************)
\* the body of the loop for one row: TRUE when the row makes the function
\* return False
\* variant: optional rows are checked like the others
RowDisqualifies_Optional(ri, vegetarian, vegan, gluten_free, exclude_allergens_lower) ==
    LET ingredient == Ingredients[ri.ingredient_id] IN
    \/ vegetarian /\ ~ingredient.is_vegetarian
    \/ vegan /\ ~ingredient.is_vegan
    \/ gluten_free /\ ~ingredient.is_gluten_free
    \/ /\ exclude_allergens_lower # <<>>
       /\ \E allergen \in Range(get_allergen_list(ingredient)) :
             allergen \in Range(exclude_allergens_lower)

\* variant: an allergen is compared with the last entry of the list only
RowDisqualifies_LastEntry(ri, vegetarian, vegan, gluten_free, exclude_allergens_lower) ==
    LET ingredient == Ingredients[ri.ingredient_id] IN
    /\ ~ri.optional
    /\ \/ vegetarian /\ ~ingredient.is_vegetarian
       \/ vegan /\ ~ingredient.is_vegan
       \/ gluten_free /\ ~ingredient.is_gluten_free
       \/ /\ exclude_allergens_lower # <<>>
          /\ \E allergen \in Range(get_allergen_list(ingredient)) :
                allergen = exclude_allergens_lower[Len(exclude_allergens_lower)]

RowDisqualifies(ri, vegetarian, vegan, gluten_free, exclude_allergens_lower) ==
    LET ingredient == Ingredients[ri.ingredient_id] IN
    /\ ~ri.optional
    /\ \/ vegetarian /\ ~ingredient.is_vegetarian
       \/ vegan /\ ~ingredient.is_vegan
       \/ gluten_free /\ ~ingredient.is_gluten_free
       \/ /\ exclude_allergens_lower # <<>>
          /\ \E allergen \in Range(get_allergen_list(ingredient)) :
                allergen \in Range(exclude_allergens_lower)

\* variant: the exclusion list is used as given, not lowercased
check_dietary_compatibility_AsGiven(recipe_ingredients, vegetarian, vegan, gluten_free, exclude_allergens) ==
    LET excl == IF IsNone(exclude_allergens) THEN <<>> ELSE Val(exclude_allergens)
    IN ~\E i \in 1..Len(recipe_ingredients) :
            RowDisqualifies(recipe_ingredients[i], vegetarian, vegan,
                            gluten_free, excl)

check_dietary_compatibility(recipe_ingredients, vegetarian, vegan, gluten_free, exclude_allergens) ==
    LET excl == IF IsNone(exclude_allergens) THEN <<>> ELSE Val(exclude_allergens)
        exclude_allergens_lower == [i \in 1..Len(excl) |-> Lower(excl[i])]
    IN ~\E i \in 1..Len(recipe_ingredients) :
            RowDisqualifies(recipe_ingredients[i], vegetarian, vegan,
                            gluten_free, exclude_allergens_lower)

(***************************************************************************)
(* Inputs of the direct calls of _check_dietary_compatibility              *)
(***************************************************************************)
RowSet == [ingredient_id : IngredientIds, optional : BOOLEAN]

RowLists == SeqsUpTo(RowSet, MaxRows)

\* entries a caller may put in exclude_allergens
AllergenWords ==
    { <<"n","u","t","s">>, <<"N","U","T","S">>, <<" ","n","u","t","s">>,
      <<"S","o","y">>, <<"d","a","i","r","y">> }

ExcludeLists == {None} \cup {Some(l) : l \in SeqsUpTo(AllergenWords, MaxExclude)}

(***************************************************************************)
(* Persisted rows                                                          *)
(*   recipe      [title, difficulty_level, prep_time, cook_time,           *)
(*                recipe_ingredients]            (id = index in recipes)   *)
(*   recipe row  [ingredient_id, optional]                                 *)
(*   pantry row  [user_id, ingredient_id, expiration_date]                 *)
(* Dates are day numbers; date.today() is Today.                           *)
(***************************************************************************)
Today == 0
ExpiringDays == 7

Users == {1, 2}

\* variant: only the item added last counts
get_user_pantry_ingredient_ids_Newest(items, user_id) ==
    {p.ingredient_id : p \in {q \in items :
        /\ q.user_id = user_id
        /\ \A o \in items : o.user_id = user_id => o.id <= q.id}}

\* variant: the items of every user count
get_user_pantry_ingredient_ids_AnyUser(items, user_id) ==
    {p.ingredient_id : p \in items}

\* app.services.pantry.get_user_pantry_ingredient_ids
get_user_pantry_ingredient_ids(items, user_id) ==
    {p.ingredient_id : p \in {q \in items : q.user_id = user_id}}

\* variant: items already expired are selected too
get_expiring_ingredient_ids_WithExpired(items, user_id, days) ==
    LET expiry_threshold == Today + days IN
    {p.ingredient_id : p \in {q \in items :
        /\ q.user_id = user_id
        /\ ~IsNone(q.expiration_date)
        /\ Val(q.expiration_date) <= expiry_threshold}}

\* get_expiring_ingredient_ids
get_expiring_ingredient_ids(items, user_id, days) ==
    LET expiry_threshold == Today + days IN
    {p.ingredient_id : p \in {q \in items :
        /\ q.user_id = user_id
        /\ ~IsNone(q.expiration_date)
        /\ Val(q.expiration_date) <= expiry_threshold
        /\ Val(q.expiration_date) >= Today}}

(***************************************************************************)
(* Arithmetic of the match percentage                                      *)
(***************************************************************************)
Hundredths == 100   \* model units per percent

\* variant: the quotient is cut to one decimal place
Round1_Truncate(num, den) == 10 * ((num * 10) \div den)

\* round(num / den, 1) in hundredths of a percent; Python rounds the
\* quotient to the nearest tenth, a tie to the even tenth
Round1(num, den) ==
    LET q == (num * 10) \div den
        r == (num * 10) % den
        up == (2 * r > den) \/ (2 * r = den /\ q % 2 = 1)
    IN 10 * (IF up THEN q + 1 ELSE q)

\* variant: the rounded value is compared
BelowMinimum_Rounded(num, den, min_match_percent) ==
    Round1(num, den) < min_match_percent

\* match_percentage < min_match_percent on the unrounded quotient
BelowMinimum(num, den, min_match_percent) ==
    num * Hundredths < min_match_percent * den

Min(a, b) == IF a < b THEN a ELSE b
Max(a, b) == IF a > b THEN a ELSE b

\* s[:limit]
Slice(s, limit) ==
    IF limit >= 0 THEN SubSeq(s, 1, Min(limit, Len(s)))
    ELSE SubSeq(s, 1, Max(0, Len(s) + limit))

(***************************************************************************)
(* get_recipe_recommendations: the loop body for one recipe                *)
(***************************************************************************)
RequiredRows(recipe_ingredients) ==
    SelectSeq(recipe_ingredients, LAMBDA ri : ~ri.optional)

TotalTime(recipe) ==
    (IF IsNone(recipe.prep_time) THEN 0 ELSE Val(recipe.prep_time))
  + (IF IsNone(recipe.cook_time) THEN 0 ELSE Val(recipe.cook_time))

\* variant: a recipe without difficulty_level passes the difficulty filter
SkippedBeforeMatch_UnclassifiedPasses(recipe, a) ==
    \/ /\ ~IsNone(a.difficulty) /\ Val(a.difficulty) # ""
       /\ ~IsNone(recipe.difficulty_level)
       /\ recipe.difficulty_level # a.difficulty
    \/ /\ ~IsNone(a.max_total_time)
       /\ TotalTime(recipe) > Val(a.max_total_time)
    \/ ~check_dietary_compatibility(recipe.recipe_ingredients, a.vegetarian,
                                    a.vegan, a.gluten_free, a.exclude_allergens)

\* variant: a recipe whose total time equals the cap is skipped
SkippedBeforeMatch_AtCap(recipe, a) ==
    \/ /\ ~IsNone(a.difficulty) /\ Val(a.difficulty) # ""
       /\ recipe.difficulty_level # a.difficulty
    \/ /\ ~IsNone(a.max_total_time)
       /\ TotalTime(recipe) >= Val(a.max_total_time)
    \/ ~check_dietary_compatibility(recipe.recipe_ingredients, a.vegetarian,
                                    a.vegan, a.gluten_free, a.exclude_allergens)

\* TRUE when one of the three filters that precede the match computation
\* skips the recipe (difficulty, time, dietary)
SkippedBeforeMatch(recipe, a) ==
    \/ /\ ~IsNone(a.difficulty) /\ Val(a.difficulty) # ""
       /\ recipe.difficulty_level # a.difficulty
    \/ /\ ~IsNone(a.max_total_time)
       /\ TotalTime(recipe) > Val(a.max_total_time)
    \/ ~check_dietary_compatibility(recipe.recipe_ingredients, a.vegetarian,
                                    a.vegan, a.gluten_free, a.exclude_allergens)

\* variant: a recipe without required rows counts as 0 percent
MatchQuotient_EmptyIsZero(matched_count, total_required) ==
    IF total_required = 0 THEN [num |-> 0, den |-> 1]
    ELSE [num |-> matched_count * 100, den |-> total_required]

\* match_percentage before rounding, as <<num, den>>: 100.0 when nothing is
\* required, (matched_count / total_required) * 100 otherwise
MatchQuotient(matched_count, total_required) ==
    IF total_required = 0 THEN [num |-> 100, den |-> 1]
    ELSE [num |-> matched_count * 100, den |-> total_required]

\* variant: the missing ingredients are listed last row first
ComputeMatch_MissingReversed(required_ingredients, pantry_ingredient_ids, expiring_ids) ==
    IF required_ingredients = <<>>
    THEN [num |-> MatchQuotient(0, 0).num, den |-> MatchQuotient(0, 0).den,
          matched_count |-> 0, missing |-> <<>>,
          uses_expiring |-> 0, divisors |-> {}]
    ELSE LET hit == SelectSeq(required_ingredients,
                      LAMBDA ri : ri.ingredient_id \in pantry_ingredient_ids)
             miss == SelectSeq(required_ingredients,
                      LAMBDA ri : ri.ingredient_id \notin pantry_ingredient_ids)
             exp == SelectSeq(required_ingredients,
                      LAMBDA ri : ri.ingredient_id \in expiring_ids)
             total_required == Len(required_ingredients)
             q == MatchQuotient(Len(hit), total_required)
         IN [num |-> q.num, den |-> q.den,
             matched_count |-> Len(hit),
             missing |-> [i \in 1..Len(miss) |->
                             miss[Len(miss) + 1 - i].ingredient_id],
             uses_expiring |-> Len(exp),
             divisors |-> {total_required}]

\* the locals after the match computation
ComputeMatch(required_ingredients, pantry_ingredient_ids, expiring_ids) ==
    IF required_ingredients = <<>>
    THEN [num |-> MatchQuotient(0, 0).num, den |-> MatchQuotient(0, 0).den,
          matched_count |-> 0, missing |-> <<>>,
          uses_expiring |-> 0, divisors |-> {}]
    ELSE LET hit == SelectSeq(required_ingredients,
                      LAMBDA ri : ri.ingredient_id \in pantry_ingredient_ids)
             miss == SelectSeq(required_ingredients,
                      LAMBDA ri : ri.ingredient_id \notin pantry_ingredient_ids)
             exp == SelectSeq(required_ingredients,
                      LAMBDA ri : ri.ingredient_id \in expiring_ids)
             total_required == Len(required_ingredients)
             q == MatchQuotient(Len(hit), total_required)
         IN [num |-> q.num, den |-> q.den,
             matched_count |-> Len(hit),
             missing |-> [i \in 1..Len(miss) |-> miss[i].ingredient_id],
             uses_expiring |-> Len(exp),
             divisors |-> {total_required}]

\* variant: the max_missing_ingredients filter is left out
EvaluateRecipe_NoMissingFilter(id, recipe, pantry_ingredient_ids, expiring_ids, a) ==
    IF SkippedBeforeMatch(recipe, a) THEN None
    ELSE LET required_ingredients == RequiredRows(recipe.recipe_ingredients)
             m == ComputeMatch(required_ingredients, pantry_ingredient_ids,
                               expiring_ids)
         IN IF BelowMinimum(m.num, m.den, a.min_match_percent) THEN None
            ELSE Some([id |-> id,
                       title |-> recipe.title,
                       match_percentage |-> Round1(m.num, m.den),
                       matched_ingredients |-> m.matched_count,
                       total_required_ingredients |-> Len(required_ingredients),
                       missing_ingredients |-> m.missing,
                       uses_expiring_ingredients |->
                           IF a.prioritize_expiring THEN Some(m.uses_expiring)
                           ELSE None])

\* Optional RecipeMatch: None when the recipe is skipped
EvaluateRecipe(id, recipe, pantry_ingredient_ids, expiring_ids, a) ==
    IF SkippedBeforeMatch(recipe, a) THEN None
    ELSE LET required_ingredients == RequiredRows(recipe.recipe_ingredients)
             m == ComputeMatch(required_ingredients, pantry_ingredient_ids,
                               expiring_ids)
         IN IF BelowMinimum(m.num, m.den, a.min_match_percent) THEN None
            ELSE IF /\ ~IsNone(a.max_missing_ingredients)
                    /\ Len(m.missing) > Val(a.max_missing_ingredients)
            THEN None
            ELSE Some([id |-> id,
                       title |-> recipe.title,
                       match_percentage |-> Round1(m.num, m.den),
                       matched_ingredients |-> m.matched_count,
                       total_required_ingredients |-> Len(required_ingredients),
                       missing_ingredients |-> m.missing,
                       uses_expiring_ingredients |->
                           IF a.prioritize_expiring THEN Some(m.uses_expiring)
                           ELSE None])

\* denominators of the divisions performed for one recipe
DivisorsUsed(recipe, pantry_ingredient_ids, expiring_ids, a) ==
    IF SkippedBeforeMatch(recipe, a) THEN {}
    ELSE ComputeMatch(RequiredRows(recipe.recipe_ingredients),
                      pantry_ingredient_ids, expiring_ids).divisors

(***************************************************************************)
(* Sorting: list.sort(key=...) is stable                                   *)
(***************************************************************************)
\* a < b for Python str (code point order, a proper prefix is smaller)
RECURSIVE StrLess(_, _)
StrLess(a, b) ==
    IF b = <<>> THEN FALSE
    ELSE IF a = <<>> THEN TRUE
    ELSE IF Head(a) # Head(b) THEN Head(a) < Head(b)
    ELSE StrLess(Tail(a), Tail(b))

\* variant: the title is left out of the key
SortKey_NoTitle(m, prioritize_expiring) ==
    IF prioritize_expiring
    THEN << -(IF IsNone(m.uses_expiring_ingredients) THEN 0
              ELSE Val(m.uses_expiring_ingredients)),
            -m.match_percentage, <<>> >>
    ELSE << 0, -m.match_percentage, <<>> >>

\* variant: the expiring count only breaks ties of the percentage
SortKey_MatchFirst(m, prioritize_expiring) ==
    IF prioritize_expiring
    THEN << -m.match_percentage,
            -(IF IsNone(m.uses_expiring_ingredients) THEN 0
              ELSE Val(m.uses_expiring_ingredients)),
            m.title >>
    ELSE << 0, -m.match_percentage, m.title >>

SortKey(m, prioritize_expiring) ==
    IF prioritize_expiring
    THEN << -(IF IsNone(m.uses_expiring_ingredients) THEN 0
              ELSE Val(m.uses_expiring_ingredients)),
            -m.match_percentage, m.title >>
    ELSE << 0, -m.match_percentage, m.title >>

\* tuple comparison k1 < k2
KeyLess(k1, k2) ==
    \/ k1[1] < k2[1]
    \/ k1[1] = k2[1] /\ k1[2] < k2[2]
    \/ k1[1] = k2[1] /\ k1[2] = k2[2] /\ StrLess(k1[3], k2[3])

\* insert m behind every entry whose key is not greater: equal keys keep
\* their order of arrival
InsertStable(sorted, m, prioritize_expiring) ==
    LET k == SortKey(m, prioritize_expiring)
        before == SelectSeq(sorted,
                    LAMBDA e : ~KeyLess(k, SortKey(e, prioritize_expiring)))
        after == SelectSeq(sorted,
                    LAMBDA e : KeyLess(k, SortKey(e, prioritize_expiring)))
    IN before \o <<m>> \o after

RECURSIVE SortMatches(_, _)
SortMatches(matches, prioritize_expiring) ==
    IF matches = <<>> THEN <<>>
    ELSE InsertStable(SortMatches(SubSeq(matches, 1, Len(matches) - 1),
                                  prioritize_expiring),
                      matches[Len(matches)], prioritize_expiring)

(***************************************************************************)
(* get_recipe_recommendations                                              *)
(***************************************************************************)
\* the matches list after the loop, recipes visited in the order given
RECURSIVE CollectMatches(_, _, _, _, _)
CollectMatches(order, rs, pantry_ingredient_ids, expiring_ids, a) ==
    IF order = <<>> THEN <<>>
    ELSE EvaluateRecipe(Head(order), rs[Head(order)], pantry_ingredient_ids,
                        expiring_ids, a)
         \o CollectMatches(Tail(order), rs, pantry_ingredient_ids,
                           expiring_ids, a)

ExpiringUsed(items, user_id, a) ==
    IF a.prioritize_expiring
    THEN get_expiring_ingredient_ids(items, user_id, ExpiringDays)
    ELSE {}

\* variant: the list is cut to limit entries before it is sorted
get_recipe_recommendations_CutFirst(rs, items, user_id, a, order) ==
    LET pantry_ingredient_ids == get_user_pantry_ingredient_ids(items, user_id)
        expiring_ids == ExpiringUsed(items, user_id, a)
        matches == CollectMatches(order, rs, pantry_ingredient_ids,
                                  expiring_ids, a)
    IN SortMatches(Slice(matches, a.limit), a.prioritize_expiring)

get_recipe_recommendations(rs, items, user_id, a, order) ==
    LET pantry_ingredient_ids == get_user_pantry_ingredient_ids(items, user_id)
        expiring_ids == ExpiringUsed(items, user_id, a)
        matches == CollectMatches(order, rs, pantry_ingredient_ids,
                                  expiring_ids, a)
    IN Slice(SortMatches(matches, a.prioritize_expiring), a.limit)

\* the orders in which SELECT without ORDER BY may deliver the recipes
Orders(rs) ==
    {o \in [1..Len(rs) -> 1..Len(rs)] : \A i, j \in 1..Len(rs) : o[i] = o[j] => i = j}

Idle == [idle |-> TRUE]

\* the id sequences before any insert, no favorite, no request answered or
\* in flight
ApiInit ==
    /\ next_id = [pantry_items |-> 1, favorites |-> 1]
    /\ favorites = {}
    /\ response = None
    /\ sessions = <<>>

(***************************************************************************)
(* Requests                                                                *)
(***************************************************************************)
NoFilter ==
    [min_match_percent |-> 0, max_missing_ingredients |-> None,
     difficulty |-> None, max_total_time |-> None,
     vegetarian |-> FALSE, vegan |-> FALSE, gluten_free |-> FALSE,
     exclude_allergens |-> None, prioritize_expiring |-> FALSE, limit |-> 20]

\* one completed call: its inputs, the snapshot it read, what it returned
CallRecord(rs, items, user_id, a, order) ==
    LET pantry_ingredient_ids == get_user_pantry_ingredient_ids(items, user_id)
        expiring_ids == ExpiringUsed(items, user_id, a)
    IN [user_id |-> user_id, args |-> a,
        pantry_ingredient_ids |-> pantry_ingredient_ids,
        expiring_ids |-> expiring_ids,
        divisors |-> UNION {DivisorsUsed(rs[i], pantry_ingredient_ids,
                                         expiring_ids, a) : i \in 1..Len(rs)},
        result |-> get_recipe_recommendations(rs, items, user_id, a, order)]

\* GET /recommendations
GetRecommendations(user_id, a, order) ==
    /\ last' = Some(CallRecord(recipes, pantry_items, user_id, a, order))
    /\ prev' = IF ~IsNone(last) /\ Val(last).user_id = user_id
                  /\ Val(last).args = a
               THEN last ELSE None
    /\ UNCHANGED <<recipes, pantry_items, dietIn, dietOut, pctIn, pctOut, apiVars>>

(***************************************************************************)
(* Spec: the tables change through the API, recommendations are requested  *)
(* in between.  The record of the calls is dropped when a table changes.   *)
(***************************************************************************)
MaxRecipes == 2       \* rows of the recipes table

Salad == <<83, 97, 108, 97, 100>>       \* "Salad"
salad == <<115, 97, 108, 97, 100>>      \* "salad"
Soup == <<83, 111, 117, 112>>           \* "Soup"

\* payloads of POST /recipes
RecipeInputs ==
    { [title |-> Soup, difficulty_level |-> None,
       prep_time |-> Some(10), cook_time |-> Some(30),
       recipe_ingredients |-> << [ingredient_id |-> 1, optional |-> FALSE],
                                 [ingredient_id |-> 2, optional |-> FALSE] >>],
      [title |-> salad, difficulty_level |-> Some("easy"),
       prep_time |-> None, cook_time |-> None,
       recipe_ingredients |-> << [ingredient_id |-> 3, optional |-> FALSE],
                                 [ingredient_id |-> 1, optional |-> TRUE] >>] }

\* bodies of POST /pantry with the user sending them: user 1 adds Tomato or
\* Cheese, dated three days ahead or undated; user 2 adds undated Cheese
PantryRequests ==
    {[user_id |-> 1, ingredient_id |-> i, expiration_date |-> d] :
        i \in {1, 3}, d \in {None, Some(Today + 3)}}
    \cup {[user_id |-> 2, ingredient_id |-> 3, expiration_date |-> None]}

ArgsMain ==
    {[NoFilter EXCEPT !.prioritize_expiring = p, !.limit = l] :
        p \in BOOLEAN, l \in {1, 20}}
    \cup {[NoFilter EXCEPT !.min_match_percent = 100 * Hundredths]}

Init ==
    /\ recipes = <<>>
    /\ pantry_items = {}
    /\ last = None
    /\ prev = None
    /\ dietIn = Idle
    /\ dietOut = None
    /\ pctIn = Idle
    /\ pctOut = None
    /\ ApiInit

\* POST /recipes (create_recipe)
CreateRecipe(recipe_data) ==
    /\ Len(recipes) < MaxRecipes
    /\ recipes' = Append(recipes, recipe_data)
    /\ last' = None
    /\ prev' = None
    /\ UNCHANGED <<pantry_items, dietIn, dietOut, pctIn, pctOut, apiVars>>

\* POST /pantry (add_pantry_item), the 201 path
AddPantryItem(user_id, ingredient_id, expiration_date) ==
    /\ ingredient_id \in IngredientIds
    /\ ~\E q \in pantry_items :
          q.user_id = user_id /\ q.ingredient_id = ingredient_id
    /\ pantry_items' = pantry_items \cup
          {[user_id |-> user_id, ingredient_id |-> ingredient_id,
            expiration_date |-> expiration_date]}
    /\ last' = None
    /\ prev' = None
    /\ UNCHANGED <<recipes, dietIn, dietOut, pctIn, pctOut, apiVars>>

\* DELETE /pantry/{item_id} (remove_pantry_item), the 200 path
RemovePantryItem(user_id, item) ==
    /\ item \in pantry_items
    /\ item.user_id = user_id
    /\ pantry_items' = pantry_items \ {item}
    /\ last' = None
    /\ prev' = None
    /\ UNCHANGED <<recipes, dietIn, dietOut, pctIn, pctOut, apiVars>>

Next ==
    \/ \E r \in RecipeInputs : CreateRecipe(r)
    \/ \E q \in PantryRequests :
          AddPantryItem(q.user_id, q.ingredient_id, q.expiration_date)
    \/ \E u \in Users, it \in pantry_items : RemovePantryItem(u, it)
    \/ \E u \in Users, a \in ArgsMain, o \in Orders(recipes) :
          GetRecommendations(u, a, o)

Spec == Init /\ [][Next]_vars

(***************************************************************************)
(* SpecOne: get_recipe_recommendations applied to every catalog of one     *)
(* recipe with up to MaxRows rows and every pantry of user 1.              *)
(***************************************************************************)
ArgsOne ==
    {[NoFilter EXCEPT !.min_match_percent = m] : m \in {0, 3332, 6670, 10000}}
    \cup {[NoFilter EXCEPT !.vegan = TRUE]}
    \cup {[NoFilter EXCEPT !.max_missing_ingredients = Some(x)] : x \in {0, 1}}

InitOne ==
    /\ \E rows \in RowLists :
          recipes = << [title |-> Salad, difficulty_level |-> None,
                        prep_time |-> None, cook_time |-> None,
                        recipe_ingredients |-> rows] >>
    /\ \E ids \in SUBSET IngredientIds :
          pantry_items = {[user_id |-> 1, ingredient_id |-> i,
                           expiration_date |-> None] : i \in ids}
    /\ last = None
    /\ prev = None
    /\ dietIn = Idle
    /\ dietOut = None
    /\ pctIn = Idle
    /\ pctOut = None
    /\ ApiInit

NextOne == \E a \in ArgsOne, o \in Orders(recipes) : GetRecommendations(1, a, o)

SpecOne == InitOne /\ [][NextOne]_vars

(***************************************************************************)
(* SpecFilter: get_recipe_recommendations applied to catalogs of up to     *)
(* MaxCatalog recipes that differ in difficulty, times and rows, with      *)
(* every combination of the filters of ArgsFilter and every pantry of      *)
(* user 1 over Tomato, Chicken and Peanut noodles.                         *)
(***************************************************************************)
MaxCatalog == 1       \* recipes of a catalog of SpecFilter

\* an easy recipe without times: Tomato and Chicken required
PlainRecipe ==
    [title |-> Salad, difficulty_level |-> Some("easy"),
     prep_time |-> None, cook_time |-> None,
     recipe_ingredients |-> << [ingredient_id |-> 1, optional |-> FALSE],
                               [ingredient_id |-> 2, optional |-> FALSE] >>]

\* PlainRecipe with one property changed, and one with all changed
FilterRecipes ==
    {[PlainRecipe EXCEPT !.difficulty_level = d] : d \in {None, Some("easy"), Some("hard")}}
    \cup {[PlainRecipe EXCEPT !.prep_time = pt, !.cook_time = ct] :
             pt \in {None, Some(10)}, ct \in {None, Some(20), Some(21)}}
    \cup {[PlainRecipe EXCEPT !.recipe_ingredients = rows] :
             rows \in { << [ingredient_id |-> 1, optional |-> FALSE],
                          [ingredient_id |-> 4, optional |-> FALSE],
                          [ingredient_id |-> 3, optional |-> TRUE] >>,
                       << [ingredient_id |-> 2, optional |-> TRUE] >> }}
    \cup {[PlainRecipe EXCEPT !.difficulty_level = None,
                              !.prep_time = Some(10), !.cook_time = Some(21),
                              !.recipe_ingredients =
                                  << [ingredient_id |-> 4, optional |-> FALSE] >>]}

ArgsFilter ==
    {[NoFilter EXCEPT !.difficulty = d, !.max_total_time = t, !.vegan = v,
                      !.min_match_percent = m, !.max_missing_ingredients = x] :
        d \in {None, Some("easy")}, t \in {None, Some(30)},
        v \in BOOLEAN, m \in {0, 50 * Hundredths},
        x \in {None, Some(0)}}
    \cup {[NoFilter EXCEPT !.max_total_time = Some(0)]}

InitFilter ==
    /\ recipes \in SeqsUpTo(FilterRecipes, MaxCatalog)
    /\ \E ids \in SUBSET {1, 2, 4} :
          pantry_items = {[user_id |-> 1, ingredient_id |-> i,
                           expiration_date |-> None] : i \in ids}
    /\ last = None
    /\ prev = None
    /\ dietIn = Idle
    /\ dietOut = None
    /\ pctIn = Idle
    /\ pctOut = None
    /\ ApiInit

NextFilter == \E a \in ArgsFilter, o \in Orders(recipes) : GetRecommendations(1, a, o)

SpecFilter == InitFilter /\ [][NextFilter]_vars

(***************************************************************************)
(* SpecDiet: _check_dietary_compatibility applied to every row list of up  *)
(* to MaxRows rows, every flag combination and every exclusion list.       *)
(***************************************************************************)
InitDiet ==
    /\ recipes = <<>>
    /\ pantry_items = {}
    /\ last = None
    /\ prev = None
    /\ dietIn \in [recipe_ingredients : RowLists, vegetarian : BOOLEAN,
                   vegan : BOOLEAN, gluten_free : BOOLEAN,
                   exclude_allergens : ExcludeLists]
    /\ dietOut = None
    /\ pctIn = Idle
    /\ pctOut = None
    /\ ApiInit

CheckDietary ==
    /\ IsNone(dietOut)
    /\ dietOut' = Some(check_dietary_compatibility(
                          dietIn.recipe_ingredients, dietIn.vegetarian,
                          dietIn.vegan, dietIn.gluten_free,
                          dietIn.exclude_allergens))
    /\ UNCHANGED <<recipes, pantry_items, last, prev, dietIn, pctIn, pctOut, apiVars>>

NextDiet == CheckDietary

SpecDiet == InitDiet /\ [][NextDiet]_vars

(***************************************************************************)
(* SpecMono: _check_dietary_compatibility applied to every row list of up  *)
(* to MaxMonoRows rows, every flag combination and every exclusion list;   *)
(* the properties checked here compare the result with the results for     *)
(* all longer exclusion lists.                                             *)
(***************************************************************************)
MaxMonoRows == 2      \* recipe_ingredients rows of a recipe in SpecMono

InitMono ==
    /\ recipes = <<>>
    /\ pantry_items = {}
    /\ last = None
    /\ prev = None
    /\ dietIn \in [recipe_ingredients : SeqsUpTo(RowSet, MaxMonoRows),
                   vegetarian : BOOLEAN, vegan : BOOLEAN, gluten_free : BOOLEAN,
                   exclude_allergens : ExcludeLists]
    /\ dietOut = None
    /\ pctIn = Idle
    /\ pctOut = None
    /\ ApiInit

SpecMono == InitMono /\ [][NextDiet]_vars

(***************************************************************************)
(* SpecPct: the match fields of a recipe with pctIn.total required rows of *)
(* which pctIn.matched are in the pantry, for recipes of up to MaxTotal    *)
(* required rows missing at most MaxGap of them.  Round1 gives the value   *)
(* of round() on the floating point quotient for every pair explored with  *)
(* MaxGap rows missing; with three rows missing it differs for 1997 of     *)
(* 2000 alone (99.9 in floating point, 99.8 exactly).                      *)
(***************************************************************************)
MaxTotal == 2000
MaxGap == 2

InitPct ==
    /\ recipes = <<>>
    /\ pantry_items = {}
    /\ last = None
    /\ prev = None
    /\ dietIn = Idle
    /\ dietOut = None
    /\ \E t \in 0..MaxTotal : \E m \in Max(0, t - MaxGap)..t :
          pctIn = [matched |-> m, total |-> t]
    /\ pctOut = None
    /\ ApiInit

\* lines 181-194 and 227-229 on the counts
MatchFields ==
    /\ IsNone(pctOut)
    /\ LET q == MatchQuotient(pctIn.matched, pctIn.total) IN
       pctOut' = Some([match_percentage |-> Round1(q.num, q.den),
                       matched_ingredients |-> pctIn.matched,
                       total_required_ingredients |-> pctIn.total])
    /\ UNCHANGED <<recipes, pantry_items, last, prev, dietIn, dietOut, pctIn, apiVars>>

NextPct == MatchFields

SpecPct == InitPct /\ [][NextPct]_vars

(***************************************************************************)
(* Full rows, as the requests below read and write them                    *)
(*   recipe row  [ingredient_id, optional, quantity, unit]                 *)
(*   pantry row  [id, user_id, ingredient_id, quantity, unit,              *)
(*                expiration_date]                                         *)
(*   favorite    [id, user_id, recipe_id]                                  *)
(* A response is [handler, user_id, request, status, body, before]; body   *)
(* is None when the request is answered with an error, before holds the    *)
(* tables as they were when the request arrived.                           *)
(***************************************************************************)
Tables == [recipes |-> recipes, pantry_items |-> pantry_items, favorites |-> favorites]

Answer(handler, user_id, request, status, body) ==
    Some([handler |-> handler, user_id |-> user_id, request |-> request,
          status |-> status, body |-> body, before |-> Tables])

\* ShoppingListItem built from one recipe row
ShoppingListItem(ri) ==
    [ingredient |-> ri.ingredient_id, quantity |-> ri.quantity, unit |-> ri.unit]

\* variant: optional rows are left out, as in the match computation
get_shopping_list_RequiredOnly(rs, items, user_id, recipe_id) ==
    IF recipe_id \notin 1..Len(rs) THEN None
    ELSE LET recipe == rs[recipe_id]
             pantry_ingredient_ids == get_user_pantry_ingredient_ids(items, user_id)
             rows == SelectSeq(recipe.recipe_ingredients,
                        LAMBDA ri : /\ ~ri.optional
                                    /\ ri.ingredient_id \notin pantry_ingredient_ids)
             missing_items == [i \in 1..Len(rows) |-> ShoppingListItem(rows[i])]
         IN Some([recipe_id |-> recipe_id, recipe_title |-> recipe.title,
                  missing_items |-> missing_items,
                  total_missing |-> Len(missing_items)])

\* variant: nothing is returned when the pantry covers the recipe
get_shopping_list_NoneWhenCovered(rs, items, user_id, recipe_id) ==
    IF recipe_id \notin 1..Len(rs) THEN None
    ELSE LET recipe == rs[recipe_id]
             pantry_ingredient_ids == get_user_pantry_ingredient_ids(items, user_id)
             rows == SelectSeq(recipe.recipe_ingredients,
                        LAMBDA ri : ri.ingredient_id \notin pantry_ingredient_ids)
             missing_items == [i \in 1..Len(rows) |-> ShoppingListItem(rows[i])]
         IN IF missing_items = <<>> THEN None
            ELSE Some([recipe_id |-> recipe_id, recipe_title |-> recipe.title,
                       missing_items |-> missing_items,
                       total_missing |-> Len(missing_items)])

\* Optional ShoppingList: None when no recipe has the id
get_shopping_list(rs, items, user_id, recipe_id) ==
    IF recipe_id \notin 1..Len(rs) THEN None
    ELSE LET recipe == rs[recipe_id]
             pantry_ingredient_ids == get_user_pantry_ingredient_ids(items, user_id)
             rows == SelectSeq(recipe.recipe_ingredients,
                        LAMBDA ri : ri.ingredient_id \notin pantry_ingredient_ids)
             missing_items == [i \in 1..Len(rows) |-> ShoppingListItem(rows[i])]
         IN Some([recipe_id |-> recipe_id, recipe_title |-> recipe.title,
                  missing_items |-> missing_items,
                  total_missing |-> Len(missing_items)])

\* variant: the shopping list is stored, its ingredients enter the pantry
get_recipe_shopping_list_Saves(user_id, recipe_id) ==
    LET shopping_list == get_shopping_list(recipes, pantry_items, user_id,
                                           recipe_id)
    IN /\ response' = Answer("get_recipe_shopping_list", user_id, recipe_id,
                             IF IsNone(shopping_list) THEN 404 ELSE 200,
                             shopping_list)
       /\ pantry_items' = IF IsNone(shopping_list) THEN pantry_items
                          ELSE pantry_items \cup
                               {[id |-> 0, user_id |-> user_id,
                                 ingredient_id |-> it.ingredient,
                                 quantity |-> it.quantity, unit |-> it.unit,
                                 expiration_date |-> None] :
                                    it \in Range(Val(shopping_list).missing_items)}
       /\ UNCHANGED <<recipes, last, prev, dietIn, dietOut, pctIn, pctOut,
                      next_id, favorites, sessions>>

\* GET /recommendations/{recipe_id}/shopping-list
get_recipe_shopping_list(user_id, recipe_id) ==
    /\ LET shopping_list == get_shopping_list(recipes, pantry_items, user_id,
                                              recipe_id)
       IN response' = Answer("get_recipe_shopping_list", user_id, recipe_id,
                             IF IsNone(shopping_list) THEN 404 ELSE 200,
                             shopping_list)
    /\ UNCHANGED <<recipes, pantry_items, last, prev, dietIn, dietOut, pctIn,
                   pctOut, next_id, favorites, sessions>>

(***************************************************************************)
(* SpecShop: the shopping list of every catalog of one recipe with up to   *)
(* MaxRows rows, for every pantry of user 1 over the ingredients used,     *)
(* user 2 holding Tomato or nothing.                                       *)
(***************************************************************************)
\* rows of a recipe: each ingredient required and optional, the two rows of
\* one ingredient differing in quantity and unit
ShopRowSet ==
    { [ingredient_id |-> 1, optional |-> FALSE,
       quantity |-> Some("2"), unit |-> Some("medium")],
      [ingredient_id |-> 1, optional |-> TRUE,
       quantity |-> None, unit |-> None],
      [ingredient_id |-> 2, optional |-> FALSE,
       quantity |-> None, unit |-> Some("pieces")],
      [ingredient_id |-> 2, optional |-> TRUE,
       quantity |-> Some("1"), unit |-> Some("large")],
      [ingredient_id |-> 3, optional |-> FALSE,
       quantity |-> Some("500g"), unit |-> None],
      [ingredient_id |-> 3, optional |-> TRUE,
       quantity |-> Some("3"), unit |-> Some("cloves")] }

ShopRowLists == SeqsUpTo(ShopRowSet, MaxRows)

\* the pantry rows left after each user added ingredients 1..3 in turn and
\* removed some: the id is the rank of the insert
StoredPantry(ids1, ids2) ==
    {[id |-> i, user_id |-> 1, ingredient_id |-> i, quantity |-> None,
      unit |-> None, expiration_date |-> None] : i \in ids1}
    \cup {[id |-> 3 + i, user_id |-> 2, ingredient_id |-> i, quantity |-> None,
           unit |-> None, expiration_date |-> None] : i \in ids2}

InitShop ==
    /\ \E rows \in ShopRowLists :
          recipes = << [title |-> Salad, difficulty_level |-> None,
                        prep_time |-> None, cook_time |-> None,
                        recipe_ingredients |-> rows] >>
    /\ \E ids1 \in SUBSET {1, 2, 3}, ids2 \in {{}, {1}} :
          pantry_items = StoredPantry(ids1, ids2)
    /\ last = None
    /\ prev = None
    /\ dietIn = Idle
    /\ dietOut = None
    /\ pctIn = Idle
    /\ pctOut = None
    /\ next_id = [pantry_items |-> 7, favorites |-> 1]
    /\ favorites = {}
    /\ response = None
    /\ sessions = <<>>

NextShop ==
    \E u \in Users, recipe_id \in 1..2 : get_recipe_shopping_list(u, recipe_id)

SpecShop == InitShop /\ [][NextShop]_vars

(***************************************************************************)
(* The pantry requests (app/routers/pantry.py, app/services/pantry.py)     *)
(***************************************************************************)
\* Result.scalar_one_or_none: the row, None, or MultipleResultsFound raised
scalar_one_or_none(rows) ==
    IF Cardinality(rows) > 1 THEN [raised |-> TRUE, value |-> None]
    ELSE IF rows = {} THEN [raised |-> FALSE, value |-> None]
    ELSE [raised |-> FALSE, value |-> Some(CHOOSE r \in rows : TRUE)]

\* app.services.ingredient.get_ingredient_by_id
get_ingredient_by_id(ingredient_id) ==
    IF ingredient_id \in IngredientIds THEN Some(ingredient_id) ELSE None

\* variant: the owner is not part of the condition
get_pantry_item_by_id_AnyUser(items, item_id, user_id) ==
    scalar_one_or_none({q \in items : q.id = item_id})

get_pantry_item_by_id(items, item_id, user_id) ==
    scalar_one_or_none({q \in items : q.id = item_id /\ q.user_id = user_id})

get_pantry_item_by_ingredient(items, user_id, ingredient_id) ==
    scalar_one_or_none({q \in items :
        q.user_id = user_id /\ q.ingredient_id = ingredient_id})

\* the row create_pantry_item inserts, id taken from the sequence
create_pantry_item(id, user_id, item_data) ==
    [id |-> id, user_id |-> user_id, ingredient_id |-> item_data.ingredient_id,
     quantity |-> item_data.quantity, unit |-> item_data.unit,
     expiration_date |-> item_data.expiration_date]

\* the rows create_pantry_items_bulk inserts, ids in list order
create_pantry_items_bulk(first_id, user_id, items_data) ==
    [k \in 1..Len(items_data) |->
        create_pantry_item(first_id + k - 1, user_id, items_data[k])]

\* update_pantry_item: the fields set in the body replace the row's
update_pantry_item(item, update_data) ==
    [f \in DOMAIN item |->
        IF f \in DOMAIN update_data THEN update_data[f] ELSE item[f]]

\* the rows left by delete_pantry_item
delete_pantry_item(items, item_id, user_id) ==
    {q \in items : ~(q.id = item_id /\ q.user_id = user_id)}

\* get_user_pantry_items: the caller's rows, in the order the query
\* delivers them, cut by OFFSET and LIMIT.  created_at is not kept in the
\* rows (the rows of one bulk insert share it), so every order is taken.
get_user_pantry_items(items, user_id, skip, limit, order) ==
    LET own == {q \in items : q.user_id = user_id}
        listed == [k \in 1..Len(order) |-> CHOOSE q \in own : q.id = order[k]]
    IN SubSeq(listed, skip + 1, Min(Len(listed), skip + limit))

\* the orders of the ids of a user's rows
IdOrders(items, user_id) ==
    LET ids == {q.id : q \in {r \in items : r.user_id = user_id}}
    IN {o \in [1..Cardinality(ids) -> ids] :
           \A i, j \in 1..Cardinality(ids) : o[i] = o[j] => i = j}

\* the loop of add_pantry_items_bulk: status 0 when it runs to its end
RECURSIVE bulk_valid_items(_, _, _, _)
bulk_valid_items(items, user_id, todo, valid_items) ==
    IF todo = <<>> THEN [status |-> 0, valid_items |-> valid_items]
    ELSE LET item_data == Head(todo)
             existing == get_pantry_item_by_ingredient(
                             items, user_id, item_data.ingredient_id)
         IN IF IsNone(get_ingredient_by_id(item_data.ingredient_id))
            THEN [status |-> 400, valid_items |-> valid_items]
            ELSE IF existing.raised
            THEN [status |-> 500, valid_items |-> valid_items]
            ELSE bulk_valid_items(items, user_id, Tail(todo),
                    IF IsNone(existing.value) THEN Append(valid_items, item_data)
                    ELSE valid_items)

\* the variables no pantry, favorites or shopping list request touches
idleVars == <<last, prev, dietIn, dietOut, pctIn, pctOut, sessions>>

\* a request answered with an error: nothing is written
Reject(handler, user_id, request, status) ==
    /\ response' = Answer(handler, user_id, request, status, None)
    /\ UNCHANGED <<recipes, pantry_items, favorites, next_id, idleVars>>

\* a read request answered
Reply(handler, user_id, request, status, body) ==
    /\ response' = Answer(handler, user_id, request, status, body)
    /\ UNCHANGED <<recipes, pantry_items, favorites, next_id, idleVars>>

MaxItems == 2         \* ids the pantry_items sequence issues

\* POST /pantry
add_pantry_item(user_id, item_data) ==
    LET ingredient == get_ingredient_by_id(item_data.ingredient_id)
        existing == get_pantry_item_by_ingredient(pantry_items, user_id,
                                                  item_data.ingredient_id)
        item == create_pantry_item(next_id.pantry_items, user_id, item_data)
    IN IF IsNone(ingredient)
       THEN Reject("add_pantry_item", user_id, item_data, 400)
       ELSE IF existing.raised
       THEN Reject("add_pantry_item", user_id, item_data, 500)
       ELSE IF ~IsNone(existing.value)
       THEN Reject("add_pantry_item", user_id, item_data, 400)
       ELSE /\ next_id.pantry_items <= MaxItems
            /\ pantry_items' = pantry_items \cup {item}
            /\ next_id' = [next_id EXCEPT !.pantry_items = @ + 1]
            /\ response' = Answer("add_pantry_item", user_id, item_data, 201,
                                  Some(item))
            /\ UNCHANGED <<recipes, favorites, idleVars>>

\* POST /pantry/bulk
add_pantry_items_bulk(user_id, bulk_data) ==
    LET loop == bulk_valid_items(pantry_items, user_id, bulk_data, <<>>)
        items == create_pantry_items_bulk(next_id.pantry_items, user_id,
                                          loop.valid_items)
    IN IF loop.status # 0
       THEN Reject("add_pantry_items_bulk", user_id, bulk_data, loop.status)
       ELSE IF loop.valid_items = <<>>
       THEN Reply("add_pantry_items_bulk", user_id, bulk_data, 201, Some(<<>>))
       ELSE /\ next_id.pantry_items + Len(items) - 1 <= MaxItems
            /\ pantry_items' = pantry_items \cup Range(items)
            /\ next_id' = [next_id EXCEPT !.pantry_items = @ + Len(items)]
            /\ response' = Answer("add_pantry_items_bulk", user_id, bulk_data,
                                  201, Some(items))
            /\ UNCHANGED <<recipes, favorites, idleVars>>

\* GET /pantry/{item_id}
get_pantry_item(user_id, item_id) ==
    LET item == get_pantry_item_by_id(pantry_items, item_id, user_id).value
    IN IF IsNone(item) THEN Reject("get_pantry_item", user_id, item_id, 404)
       ELSE Reply("get_pantry_item", user_id, item_id, 200, item)

\* PATCH /pantry/{item_id}
update_pantry_item_endpoint(user_id, item_id, update_data) ==
    LET request == [item_id |-> item_id, update_data |-> update_data]
        item == get_pantry_item_by_id(pantry_items, item_id, user_id).value
        updated_item == update_pantry_item(Val(item), update_data)
    IN IF IsNone(item)
       THEN Reject("update_pantry_item_endpoint", user_id, request, 404)
       ELSE /\ pantry_items' = (pantry_items \ {Val(item)}) \cup {updated_item}
            /\ response' = Answer("update_pantry_item_endpoint", user_id,
                                  request, 200, Some(updated_item))
            /\ UNCHANGED <<recipes, favorites, next_id, idleVars>>

\* DELETE /pantry/{item_id}
remove_pantry_item(user_id, item_id) ==
    LET left == delete_pantry_item(pantry_items, item_id, user_id)
    IN IF left = pantry_items
       THEN Reject("remove_pantry_item", user_id, item_id, 404)
       ELSE /\ pantry_items' = left
            /\ response' = Answer("remove_pantry_item", user_id, item_id, 200,
                                  None)
            /\ UNCHANGED <<recipes, favorites, next_id, idleVars>>

\* GET /pantry
list_pantry_items(user_id, skip, limit, order) ==
    Reply("list_pantry_items", user_id, [skip |-> skip, limit |-> limit], 200,
          Some(get_user_pantry_items(pantry_items, user_id, skip, limit, order)))

(***************************************************************************)
(* SpecPantry: the pantry requests of two users, one after the other.      *)
(***************************************************************************)
\* bodies of POST /pantry: Tomato, dated Cheese, an id no ingredient has
PantryBodies ==
    { [ingredient_id |-> 1, quantity |-> None, unit |-> None,
       expiration_date |-> None],
      [ingredient_id |-> 3, quantity |-> Some("2"), unit |-> Some("cups"),
       expiration_date |-> Some(Today + 3)],
      [ingredient_id |-> 9, quantity |-> None, unit |-> None,
       expiration_date |-> None] }

BodyOf(ingredient_id) == CHOOSE b \in PantryBodies : b.ingredient_id = ingredient_id

\* bodies of POST /pantry/bulk
BulkRequests ==
    { <<BodyOf(1)>>, <<BodyOf(1), BodyOf(1)>>, <<BodyOf(1), BodyOf(3)>>,
      <<BodyOf(3), BodyOf(1)>>, <<BodyOf(3), BodyOf(9)>>,
      <<BodyOf(1), BodyOf(9)>> }

\* bodies of PATCH /pantry/{item_id}: only the fields sent are set
UpdateBodies ==
    { [quantity |-> Some("5")], [expiration_date |-> None] }

\* item ids of the requests: every id issued and one never issued
ItemIds == 1..(MaxItems + 1)

\* skip and limit of GET /pantry
Pages == { [skip |-> 0, limit |-> 100], [skip |-> 1, limit |-> 100],
           [skip |-> 0, limit |-> 1] }

NextPantry ==
    \/ \E u \in Users, b \in PantryBodies : add_pantry_item(u, b)
    \/ \E u \in Users, bulk \in BulkRequests : add_pantry_items_bulk(u, bulk)
    \/ \E u \in Users, id \in ItemIds : get_pantry_item(u, id)
    \/ \E u \in Users, id \in ItemIds, upd \in UpdateBodies :
          update_pantry_item_endpoint(u, id, upd)
    \/ \E u \in Users, id \in ItemIds : remove_pantry_item(u, id)
    \/ \E u \in Users, pg \in Pages :
          \E o \in IdOrders(pantry_items, u) :
              list_pantry_items(u, pg.skip, pg.limit, o)

SpecPantry == Init /\ [][NextPantry]_vars

(***************************************************************************)
(* Requests in flight.  A handler is a coroutine: at every await another   *)
(* request may run and commit.  A request works in a session of its own;   *)
(* every statement it executes sees the rows committed by then (the        *)
(* default isolation of the configured database, config.py line 22), and   *)
(* what it writes is committed when it is answered.                        *)
(*   sessions[s] is Idle or the progress of the request served in s:       *)
(*   [handler, pc, user_id, request] and what its statements have read.    *)
(***************************************************************************)
Sessions == {1, 2}

StartSessions == [s \in Sessions |-> Idle]

IsIdle(s) == "idle" \in DOMAIN sessions[s]

InFlight(s, handler, pc) ==
    /\ ~IsIdle(s)
    /\ sessions[s].handler = handler
    /\ sessions[s].pc = pc

\* a response that also tells what the statements of the request read
AnswerRead(handler, user_id, request, status, body, read) ==
    Some([handler |-> handler, user_id |-> user_id, request |-> request,
          status |-> status, body |-> body, before |-> Tables, read |-> read])

\* get_recipe_recommendations from its loop on: the matches of the recipes
\* read, sorted and cut
RankRecipes(rs, pantry_ingredient_ids, expiring_ids, a, order) ==
    Slice(SortMatches(CollectMatches(order, rs, pantry_ingredient_ids,
                                     expiring_ids, a),
                      a.prioritize_expiring),
          a.limit)

\* GET /recommendations, first statement: the pantry set is read
rec_read_pantry(s, user_id, a) ==
    /\ IsIdle(s)
    /\ sessions' = [sessions EXCEPT ![s] =
          [handler |-> "get_recommendations", pc |-> "expiring",
           user_id |-> user_id, request |-> a,
           pantry_ingredient_ids |->
               get_user_pantry_ingredient_ids(pantry_items, user_id),
           expiring_ids |-> {}]]
    /\ response' = None
    /\ UNCHANGED <<recipes, pantry_items, favorites, next_id, last, prev,
                   dietIn, dietOut, pctIn, pctOut>>

\* second statement: the expiring set is read when prioritize_expiring
rec_read_expiring(s) ==
    /\ InFlight(s, "get_recommendations", "expiring")
    /\ sessions' = [sessions EXCEPT ![s] =
          [sessions[s] EXCEPT
              !.pc = "recipes",
              !.expiring_ids = ExpiringUsed(pantry_items, sessions[s].user_id,
                                            sessions[s].request)]]
    /\ response' = None
    /\ UNCHANGED <<recipes, pantry_items, favorites, next_id, last, prev,
                   dietIn, dietOut, pctIn, pctOut>>

\* third statement: the recipes are read, matched against the two sets read
\* before, and the list is returned
rec_read_recipes(s, order) ==
    /\ InFlight(s, "get_recommendations", "recipes")
    /\ LET c == sessions[s] IN
       response' = AnswerRead("get_recommendations", c.user_id, c.request, 200,
                      Some(RankRecipes(recipes, c.pantry_ingredient_ids,
                                       c.expiring_ids, c.request, order)),
                      [pantry_ingredient_ids |-> c.pantry_ingredient_ids,
                       expiring_ids |-> c.expiring_ids])
    /\ sessions' = [sessions EXCEPT ![s] = Idle]
    /\ UNCHANGED <<recipes, pantry_items, favorites, next_id, last, prev,
                   dietIn, dietOut, pctIn, pctOut>>

(***************************************************************************)
(* SpecRace: recommendations of user 1 in flight while user 1 adds,        *)
(* updates and removes pantry items.  The catalog is that of RecipeInputs. *)
(***************************************************************************)
ArgsRace == {[NoFilter EXCEPT !.prioritize_expiring = p] : p \in BOOLEAN}

InitRace ==
    /\ recipes \in {<<r1, r2>> : r1, r2 \in RecipeInputs}
    /\ Len(recipes) = 2 /\ recipes[1] # recipes[2]
    /\ pantry_items = {}
    /\ last = None
    /\ prev = None
    /\ dietIn = Idle
    /\ dietOut = None
    /\ pctIn = Idle
    /\ pctOut = None
    /\ next_id = [pantry_items |-> 1, favorites |-> 1]
    /\ favorites = {}
    /\ response = None
    /\ sessions = StartSessions

NextRace ==
    \/ \E a \in ArgsRace : rec_read_pantry(1, 1, a)
    \/ rec_read_expiring(1)
    \/ \E o \in Orders(recipes) : rec_read_recipes(1, o)
    \/ \E b \in PantryBodies : add_pantry_item(1, b)
    \/ \E id \in ItemIds, upd \in UpdateBodies :
          update_pantry_item_endpoint(1, id, upd)
    \/ \E id \in ItemIds : remove_pantry_item(1, id)

SpecRace == InitRace /\ [][NextRace]_vars

(***************************************************************************)
(* Favorites.  A favorites row is [id, user_id, recipe_id]; the table has  *)
(* the unique constraint uq_user_recipe_favorite on (user_id, recipe_id).  *)
(* POST /favorites/{recipe_id} executes three statements with an await     *)
(* between them; DELETE /favorites/{recipe_id} is one DELETE statement.    *)
(***************************************************************************)
MaxFavorites == 2     \* ids the favorites sequence issues

\* app.services.recipe.get_recipe_by_id: ids are the positions in recipes
get_recipe_by_id(rs, recipe_id) ==
    IF recipe_id \in 1..Len(rs) THEN Some(rs[recipe_id]) ELSE None

\* app.services.favorite.get_favorite_by_recipe
get_favorite_by_recipe(favs, user_id, recipe_id) ==
    scalar_one_or_none({f \in favs : f.user_id = user_id /\ f.recipe_id = recipe_id})

\* the table takes the row: no stored row has its user_id and recipe_id
uq_user_recipe_favorite(favs, row) ==
    \A f \in favs : ~(f.user_id = row.user_id /\ f.recipe_id = row.recipe_id)

\* app.services.favorite.add_favorite: the row the INSERT sends
add_favorite(id, user_id, recipe_id) ==
    [id |-> id, user_id |-> user_id, recipe_id |-> recipe_id]

\* app.services.favorite.remove_favorite: the rows the DELETE matches
remove_favorite(favs, user_id, recipe_id) ==
    {f \in favs : f.user_id = user_id /\ f.recipe_id = recipe_id}

favIdle == <<last, prev, dietIn, dietOut, pctIn, pctOut>>

\* POST /favorites/{recipe_id}, first statement: the recipe is looked up;
\* 400 when there is none.  The request is served in the first idle session;
\* read is what its lookup of the favorite returned
fav_read_recipe(s, user_id, recipe_id) ==
    /\ IsIdle(s)
    /\ \A t \in Sessions : t < s => ~IsIdle(t)
    /\ IF IsNone(get_recipe_by_id(recipes, recipe_id))
       THEN /\ response' = AnswerRead("add_to_favorites", user_id, recipe_id,
                                      400, None, None)
            /\ UNCHANGED sessions
       ELSE /\ sessions' = [sessions EXCEPT ![s] =
                  [handler |-> "add_to_favorites", pc |-> "existing",
                   user_id |-> user_id, request |-> recipe_id,
                   read |-> None]]
            /\ response' = None
    /\ UNCHANGED <<recipes, pantry_items, favorites, next_id, favIdle>>

\* second statement: the caller's favorite of the recipe is looked up; 400
\* when there is one
fav_read_existing(s) ==
    /\ InFlight(s, "add_to_favorites", "existing")
    /\ LET c == sessions[s]
           existing == get_favorite_by_recipe(favorites, c.user_id, c.request)
       IN IF existing.raised
          THEN /\ response' = AnswerRead("add_to_favorites", c.user_id,
                                         c.request, 500, None, None)
               /\ sessions' = [sessions EXCEPT ![s] = Idle]
          ELSE IF ~IsNone(existing.value)
          THEN /\ response' = AnswerRead("add_to_favorites", c.user_id,
                                         c.request, 400, None, existing.value)
               /\ sessions' = [sessions EXCEPT ![s] = Idle]
          ELSE /\ sessions' = [sessions EXCEPT ![s] =
                     [sessions[s] EXCEPT !.pc = "insert", !.read = existing.value]]
               /\ response' = None
    /\ UNCHANGED <<recipes, pantry_items, favorites, next_id, favIdle>>

\* third statement: the INSERT of add_favorite.  The table takes the row and
\* the request is answered 201, or the constraint refuses it: IntegrityError
\* is raised, no handler catches it, the request is answered 500
fav_insert(s) ==
    /\ InFlight(s, "add_to_favorites", "insert")
    /\ LET c == sessions[s]
           favorite == add_favorite(next_id.favorites, c.user_id, c.request)
       IN IF uq_user_recipe_favorite(favorites, favorite)
          THEN /\ next_id.favorites <= MaxFavorites
               /\ favorites' = favorites \cup {favorite}
               /\ next_id' = [next_id EXCEPT !.favorites = @ + 1]
               /\ response' = AnswerRead("add_to_favorites", c.user_id,
                                         c.request, 201, Some(favorite), c.read)
          ELSE /\ response' = AnswerRead("add_to_favorites", c.user_id,
                                         c.request, 500, None, c.read)
               /\ UNCHANGED <<favorites, next_id>>
    /\ sessions' = [sessions EXCEPT ![s] = Idle]
    /\ UNCHANGED <<recipes, pantry_items, favIdle>>

\* DELETE /favorites/{recipe_id}
remove_from_favorites(user_id, recipe_id) ==
    LET removed == remove_favorite(favorites, user_id, recipe_id)
    IN /\ favorites' = favorites \ removed
       /\ response' = Answer("remove_from_favorites", user_id, recipe_id,
                             IF removed # {} THEN 200 ELSE 404, None)
       /\ UNCHANGED <<recipes, pantry_items, next_id, idleVars>>

(***************************************************************************)
(* SpecFav: the two users add and remove favorites, two requests in flight *)
(* at a time, while recipes are created.                                   *)
(***************************************************************************)
RecipeIds == 1..MaxRecipes

\* the recipe POST /recipes is sent with
SoupRecipe == CHOOSE r \in RecipeInputs : r.title = Soup

InitFav ==
    /\ recipes = <<>>
    /\ pantry_items = {}
    /\ last = None
    /\ prev = None
    /\ dietIn = Idle
    /\ dietOut = None
    /\ pctIn = Idle
    /\ pctOut = None
    /\ next_id = [pantry_items |-> 1, favorites |-> 1]
    /\ favorites = {}
    /\ response = None
    /\ sessions = StartSessions

NextFav ==
    \/ CreateRecipe(SoupRecipe)
    \/ \E s \in Sessions, u \in Users, id \in RecipeIds : fav_read_recipe(s, u, id)
    \/ \E s \in Sessions : fav_read_existing(s)
    \/ \E s \in Sessions : fav_insert(s)
    \/ \E u \in Users, id \in RecipeIds : remove_from_favorites(u, id)

SpecFav == InitFav /\ [][NextFav]_vars

(***************************************************************************)
(* Expiring items.  get_expiring_ingredient_ids (used to rank) and         *)
(* get_expiring_items (GET /pantry/expiring) each select the dated items   *)
(* of a user up to today + days.                                           *)
(***************************************************************************)
\* app.services.pantry.get_expiring_items: the rows the query selects
get_expiring_items(items, user_id, days) ==
    LET expiry_threshold == Today + days IN
    {q \in items :
        /\ q.user_id = user_id
        /\ ~IsNone(q.expiration_date)
        /\ Val(q.expiration_date) <= expiry_threshold}

\* ORDER BY expiration_date: the sequences of the rows with dates ascending,
\* rows of one date in any order
OrderedByDate(rows) ==
    {s \in [1..Cardinality(rows) -> rows] :
        /\ \A i, j \in 1..Cardinality(rows) : s[i] = s[j] => i = j
        /\ \A i, j \in 1..Cardinality(rows) :
              i < j => Val(s[i].expiration_date) <= Val(s[j].expiration_date)}

\* GET /pantry/expiring
list_expiring_items(user_id, days, items) ==
    /\ items \in OrderedByDate(get_expiring_items(pantry_items, user_id, days))
    /\ Reply("list_expiring_items", user_id, [days |-> days], 200, Some(items))

\* a call of get_expiring_ingredient_ids
expiring_ingredient_ids(user_id, days) ==
    /\ response' = Some([handler |-> "get_expiring_ingredient_ids",
                         user_id |-> user_id, request |-> [days |-> days],
                         body |-> Some(get_expiring_ingredient_ids(
                                          pantry_items, user_id, days)),
                         before |-> Tables])
    /\ UNCHANGED <<recipes, pantry_items, favorites, next_id, idleVars>>

(***************************************************************************)
(* SpecExp: every pantry in which user 1 holds each of the ingredients     *)
(* 1..MaxDated undated, dated yesterday, today, today + 7, today + 8, or   *)
(* not at all, and user 2 holds ingredient 1 undated, dated today, or not  *)
(* at all.                                                                 *)
(***************************************************************************)
MaxDated == 2         \* ingredients of user 1's pantry in SpecExp

ExpDates ==
    {None, Some(Today - 1), Some(Today), Some(Today + ExpiringDays),
     Some(Today + ExpiringDays + 1)}

\* days of GET /pantry/expiring (1 to 90, default 7)
ExpDays == {1, ExpiringDays}

InitExp ==
    /\ recipes = <<SoupRecipe>>
    /\ \E held \in SUBSET (1..MaxDated) :
       \E dates \in [held -> ExpDates] :
       \E other \in SUBSET {None, Some(Today)} :
          /\ Cardinality(other) <= 1
          /\ pantry_items =
                {[user_id |-> 1, ingredient_id |-> i,
                  expiration_date |-> dates[i]] : i \in held}
                \cup {[user_id |-> 2, ingredient_id |-> 1,
                       expiration_date |-> d] : d \in other}
    /\ last = None
    /\ prev = None
    /\ dietIn = Idle
    /\ dietOut = None
    /\ pctIn = Idle
    /\ pctOut = None
    /\ ApiInit

NextExp ==
    \/ \E u \in Users, a \in ArgsRace, o \in Orders(recipes) : GetRecommendations(u, a, o)
    \/ \E u \in Users, d \in ExpDays : expiring_ingredient_ids(u, d)
    \/ \E u \in Users, d \in ExpDays :
          \E items \in OrderedByDate(get_expiring_items(pantry_items, u, d)) :
             list_expiring_items(u, d, items)

SpecExp == InitExp /\ [][NextExp]_vars

(***************************************************************************)
(* SpecMix: recommendations and shopping lists requested between the       *)
(* pantry requests of two users, one request after the other, on a         *)
(* catalog of two recipes.                                                 *)
(***************************************************************************)
\* GET /recommendations served with no other request in between: read is
\* the pantry set and the expiring set the call used
get_recommendations(user_id, a, order) ==
    /\ response' = AnswerRead("get_recommendations", user_id, a, 200,
                      Some(get_recipe_recommendations(recipes, pantry_items,
                                                      user_id, a, order)),
                      [pantry_ingredient_ids |->
                           get_user_pantry_ingredient_ids(pantry_items, user_id),
                       expiring_ids |-> ExpiringUsed(pantry_items, user_id, a)])
    /\ UNCHANGED <<recipes, pantry_items, favorites, next_id, idleVars>>

\* Soup needs Tomato, Cheese and Chicken; salad needs Cheese, Tomato optional
MixCatalog ==
    << [title |-> Soup, difficulty_level |-> None,
        prep_time |-> Some(10), cook_time |-> Some(30),
        recipe_ingredients |->
           << [ingredient_id |-> 1, optional |-> FALSE,
               quantity |-> Some("2"), unit |-> Some("medium")],
              [ingredient_id |-> 3, optional |-> FALSE,
               quantity |-> Some("500g"), unit |-> None],
              [ingredient_id |-> 2, optional |-> FALSE,
               quantity |-> None, unit |-> Some("pieces")] >>],
       [title |-> salad, difficulty_level |-> Some("easy"),
        prep_time |-> None, cook_time |-> None,
        recipe_ingredients |->
           << [ingredient_id |-> 3, optional |-> FALSE,
               quantity |-> Some("3"), unit |-> Some("cloves")],
              [ingredient_id |-> 1, optional |-> TRUE,
               quantity |-> None, unit |-> None] >>] >>

ArgsMix ==
    ArgsRace \cup {[NoFilter EXCEPT !.min_match_percent = 50 * Hundredths]}

InitMix ==
    /\ recipes = MixCatalog
    /\ pantry_items = {}
    /\ last = None
    /\ prev = None
    /\ dietIn = Idle
    /\ dietOut = None
    /\ pctIn = Idle
    /\ pctOut = None
    /\ ApiInit

NextMix ==
    \/ \E u \in Users, a \in ArgsMix, o \in Orders(recipes) : get_recommendations(u, a, o)
    \/ \E u \in Users, recipe_id \in 1..(Len(MixCatalog) + 1) : get_recipe_shopping_list(u, recipe_id)
    \/ \E u \in Users, b \in PantryBodies : add_pantry_item(u, b)
    \/ \E u \in Users, id \in ItemIds, upd \in UpdateBodies : update_pantry_item_endpoint(u, id, upd)
    \/ \E u \in Users, id \in ItemIds : remove_pantry_item(u, id)

SpecMix == InitMix /\ [][NextMix]_vars

(***************************************************************************)
(* Properties of _check_dietary_compatibility (SpecDiet)                   *)
(***************************************************************************)
EqualIgnoringCase(a, b) ==
    /\ Len(a) = Len(b)
    /\ \A i \in 1..Len(a) : LowerChar(a[i]) = LowerChar(b[i])

IsNormalizedTag(t) ==
    /\ t # <<>>
    /\ Head(t) # " "
    /\ t[Len(t)] # " "
    /\ \A i \in 1..Len(t) : LowerChar(t[i]) = t[i] /\ t[i] # ","

ExcludeEntries(d) ==
    IF IsNone(d.exclude_allergens) THEN {} ELSE Range(Val(d.exclude_allergens))

\* one ingredient against every requested constraint
SatisfiesConstraints(ingredient, d) ==
    /\ d.vegetarian => ingredient.is_vegetarian
    /\ d.vegan => ingredient.is_vegan
    /\ d.gluten_free => ingredient.is_gluten_free
    /\ \A tag \in Range(get_allergen_list(ingredient)) :
          /\ IsNormalizedTag(tag)
          /\ \A e \in ExcludeEntries(d) : ~EqualIgnoringCase(tag, e)

NonOptional(rows) == {i \in 1..Len(rows) : ~rows[i].optional}

\* C1: _check_dietary_compatibility returns True exactly when every
\* non-optional row's ingredient satisfies all requested constraints (the
\* three flags, and no normalized allergen tag equal, ignoring case, to an
\* exclude_allergens entry); it returns True when nothing is requested and
\* when there is no non-optional row.
C1_DietaryIff ==
    ~IsNone(dietOut) =>
        LET rows == dietIn.recipe_ingredients IN
        /\ Val(dietOut) =
              (\A i \in NonOptional(rows) :
                  SatisfiesConstraints(Ingredients[rows[i].ingredient_id], dietIn))
        /\ ( \/ NonOptional(rows) = {}
             \/ /\ ~dietIn.vegetarian /\ ~dietIn.vegan /\ ~dietIn.gluten_free
                /\ ExcludeEntries(dietIn) = {} )
           => Val(dietOut)

\* a recipe is rejected only for an allergen, named in another letter case
\* than the stored tag, while an optional row breaks every flag
C1_Witness ==
    /\ dietOut = Some(FALSE)
    /\ ~dietIn.vegetarian /\ ~dietIn.vegan /\ ~dietIn.gluten_free
    /\ dietIn.exclude_allergens = Some(<< <<"N","U","T","S">> >>)
    /\ dietIn.recipe_ingredients =
          << [ingredient_id |-> 2, optional |-> TRUE],
             [ingredient_id |-> 4, optional |-> FALSE] >>

(***************************************************************************)
(* Properties of get_recipe_recommendations on one recipe (SpecOne)        *)
(***************************************************************************)
WithoutOptionalRows(rs) ==
    [i \in 1..Len(rs) |->
        [rs[i] EXCEPT !.recipe_ingredients =
            SelectSeq(rs[i].recipe_ingredients, LAMBDA ri : ri.optional = FALSE)]]

HasOptionalRow(recipe) ==
    \E i \in 1..Len(recipe.recipe_ingredients) :
        recipe.recipe_ingredients[i].optional

RequiredCount(recipe) ==
    Cardinality(NonOptional(recipe.recipe_ingredients))

MatchedCount(recipe, ids) ==
    Cardinality({i \in NonOptional(recipe.recipe_ingredients) :
                    recipe.recipe_ingredients[i].ingredient_id \in ids})

Entries(c) == Range(c.result)

DietaryOf(rows, a) ==
    check_dietary_compatibility(rows, a.vegetarian, a.vegan, a.gluten_free,
                                a.exclude_allergens)

\* C2: optional rows never influence matching.  The call returns for the
\* catalog what it returns for the catalog with every optional row removed
\* (so any two recipes with the same required rows get the same inclusion
\* decision and the same match fields), and the dietary check gives the same
\* result with and without the optional rows.
C2_OptionalIrrelevant ==
    ~IsNone(last) =>
        LET c == Val(last) IN
        /\ \E o \in Orders(recipes) :
              c.result = get_recipe_recommendations(
                            WithoutOptionalRows(recipes), pantry_items,
                            c.user_id, c.args, o)
        /\ \A i \in 1..Len(recipes) :
              DietaryOf(recipes[i].recipe_ingredients, c.args)
                = DietaryOf(WithoutOptionalRows(recipes)[i].recipe_ingredients,
                            c.args)

\* a vegan request returns a recipe whose optional Cheese row is neither
\* vegan nor in the pantry
C2_Witness ==
    /\ ~IsNone(last)
    /\ Val(last).args.vegan
    /\ Len(Val(last).result) = 1
    /\ Val(last).result[1].total_required_ingredients = 1
    /\ \E i \in 1..Len(recipes[1].recipe_ingredients) :
          /\ recipes[1].recipe_ingredients[i] =
                [ingredient_id |-> 3, optional |-> TRUE]
          /\ 3 \notin Val(last).pantry_ingredient_ids

\* C3: a recipe without required rows is reported with match_percentage
\* 100.0, matched_ingredients 0, total_required_ingredients 0 and no missing
\* ingredient, whatever the pantry holds, and no call divides by zero.
C3_NoRequiredRows ==
    ~IsNone(last) =>
        LET c == Val(last) IN
        /\ 0 \notin c.divisors
        /\ \A i \in 1..Len(recipes) :
              RequiredCount(recipes[i]) = 0 =>
                 /\ c.divisors = {} \/ Len(recipes) > 1
                 /\ \A m \in Entries(c) :
                       m.id = i =>
                          /\ m.match_percentage = 100 * Hundredths
                          /\ m.matched_ingredients = 0
                          /\ m.total_required_ingredients = 0
                          /\ m.missing_ingredients = <<>>

\* a recipe of optional rows only is returned, the pantry holding one of
\* its ingredients and lacking another
C3_Witness ==
    /\ ~IsNone(last)
    /\ Len(Val(last).result) = 1
    /\ Len(recipes[1].recipe_ingredients) = 2
    /\ RequiredCount(recipes[1]) = 0
    /\ recipes[1].recipe_ingredients[1].ingredient_id
          \in Val(last).pantry_ingredient_ids
    /\ recipes[1].recipe_ingredients[2].ingredient_id
          \notin Val(last).pantry_ingredient_ids
Abs(x) == IF x < 0 THEN -x ELSE x

\* C5: with at least one required row the reported match_percentage is
\* (required rows whose ingredient is in the pantry) / (required rows) * 100
\* rounded to one decimal place, 2 of 3 giving 66.7; every reported
\* percentage lies in [0, 100].
C5_Percentage ==
    ~IsNone(last) =>
        LET c == Val(last) IN
        \A m \in Entries(c) :
            LET t == RequiredCount(recipes[m.id])
                k == MatchedCount(recipes[m.id], c.pantry_ingredient_ids)
            IN /\ m.match_percentage >= 0
               /\ m.match_percentage <= 100 * Hundredths
               /\ m.matched_ingredients = k
               /\ m.total_required_ingredients = t
               /\ t >= 1 =>
                    /\ m.match_percentage % 10 = 0
                    /\ Abs(m.match_percentage * t - k * 100 * Hundredths) <= 5 * t
                    /\ (k = 2 /\ t = 3) => m.match_percentage = 6670

\* two of three required ingredients are in the pantry: 66.7
C5_Witness ==
    /\ ~IsNone(last)
    /\ Len(Val(last).result) = 1
    /\ Val(last).result[1].matched_ingredients = 2
    /\ Val(last).result[1].total_required_ingredients = 3
    /\ Val(last).result[1].match_percentage = 6670

\* the filters other than the minimum-match filter
PassesOtherFilters(recipe, c) ==
    /\ ~SkippedBeforeMatch(recipe, c.args)
    /\ \/ IsNone(c.args.max_missing_ingredients)
       \/ RequiredCount(recipe) - MatchedCount(recipe, c.pantry_ingredient_ids)
             <= Val(c.args.max_missing_ingredients)

\* the value reported as match_percentage for the recipe
ReportedPercentage(recipe, c) ==
    LET t == RequiredCount(recipe)
        k == MatchedCount(recipe, c.pantry_ingredient_ids)
    IN IF t = 0 THEN 100 * Hundredths ELSE Round1(k * 100, t)

\* matched / total * 100 >= min_match_percent, before any rounding
UnroundedAtLeast(recipe, c) ==
    LET t == RequiredCount(recipe)
        k == MatchedCount(recipe, c.pantry_ingredient_ids)
    IN IF t = 0 THEN 100 * Hundredths >= c.args.min_match_percent
       ELSE k * 100 * Hundredths >= c.args.min_match_percent * t

Returned(i, c) == \E m \in Entries(c) : m.id = i

TitleBefore(a, b) ==
    \E k \in 1..Len(b) :
        /\ \A j \in 1..(k - 1) : j <= Len(a) /\ a[j] = b[j]
        /\ \/ k = Len(a) + 1
           \/ k <= Len(a) /\ a[k] < b[k]

ExpiringOf(m) ==
    IF IsNone(m.uses_expiring_ingredients) THEN 0
    ELSE Val(m.uses_expiring_ingredients)

\* C7: with prioritize_expiring false the result is non-increasing in
\* match_percentage and adjacent entries of equal match_percentage are in
\* ascending case-sensitive title order.
C7_SortedByMatch ==
    (~IsNone(last) /\ ~Val(last).args.prioritize_expiring) =>
        LET r == Val(last).result IN
        \A i \in 1..(Len(r) - 1) :
            /\ r[i].match_percentage >= r[i + 1].match_percentage
            /\ r[i].match_percentage = r[i + 1].match_percentage
                  => ~TitleBefore(r[i + 1].title, r[i].title)

\* "Soup" precedes "salad" at equal match_percentage
C7_Witness ==
    /\ ~IsNone(last)
    /\ ~Val(last).args.prioritize_expiring
    /\ Len(Val(last).result) = 2
    /\ Val(last).result[1].match_percentage = Val(last).result[2].match_percentage
    /\ Val(last).result[1].title = Soup
    /\ Val(last).result[2].title = salad

\* C8: with prioritize_expiring true the result is ordered by
\* uses_expiring_ingredients descending, then match_percentage descending,
\* then title ascending; an entry with a higher expiring count precedes
\* every entry with a lower one, whatever their percentages.
C8_SortedByExpiring ==
    (~IsNone(last) /\ Val(last).args.prioritize_expiring) =>
        LET r == Val(last).result IN
        /\ \A i \in 1..(Len(r) - 1) :
              \/ ExpiringOf(r[i]) > ExpiringOf(r[i + 1])
              \/ /\ ExpiringOf(r[i]) = ExpiringOf(r[i + 1])
                 /\ r[i].match_percentage > r[i + 1].match_percentage
              \/ /\ ExpiringOf(r[i]) = ExpiringOf(r[i + 1])
                 /\ r[i].match_percentage = r[i + 1].match_percentage
                 /\ ~TitleBefore(r[i + 1].title, r[i].title)
        /\ \A i, j \in 1..Len(r) :
              ExpiringOf(r[i]) > ExpiringOf(r[j]) => i < j

\* the entry using an expiring ingredient comes first with the lower
\* match_percentage
C8_Witness ==
    /\ ~IsNone(last)
    /\ Val(last).args.prioritize_expiring
    /\ Len(Val(last).result) = 2
    /\ ExpiringOf(Val(last).result[1]) > ExpiringOf(Val(last).result[2])
    /\ Val(last).result[1].match_percentage < Val(last).result[2].match_percentage

\* the recipes that pass every filter of the call, and their entries
MatchOf(i, c) ==
    EvaluateRecipe(i, recipes[i], c.pantry_ingredient_ids, c.expiring_ids, c.args)

Passing(c) == {i \in 1..Len(recipes) : ~IsNone(MatchOf(i, c))}

KeyOf(m, c) == SortKey(m, c.args.prioritize_expiring)

\* C9: for limit >= 1 the result is the first min(limit, n) entries of the
\* sorted list of the n recipes that pass all filters: it has min(limit, n)
\* entries, each the entry of a different passing recipe, in sorted order,
\* and no passing recipe left out sorts strictly before a returned one.
C9_FirstLimit ==
    (~IsNone(last) /\ Val(last).args.limit >= 1) =>
        LET c == Val(last)
            r == c.result
        IN /\ Len(r) = Min(c.args.limit, Cardinality(Passing(c)))
           /\ \A i \in 1..Len(r) :
                 r[i].id \in Passing(c) /\ r[i] = Val(MatchOf(r[i].id, c))
           /\ \A i, j \in 1..Len(r) : r[i].id = r[j].id => i = j
           /\ \A i \in 1..(Len(r) - 1) : ~KeyLess(KeyOf(r[i + 1], c), KeyOf(r[i], c))
           /\ \A p \in Passing(c) :
                 (\A i \in 1..Len(r) : r[i].id # p) =>
                    \A i \in 1..Len(r) :
                        ~KeyLess(KeyOf(Val(MatchOf(p, c)), c), KeyOf(r[i], c))

\* two recipes pass, limit 1 returns the better one only
C9_Witness ==
    /\ ~IsNone(last)
    /\ Val(last).args.limit = 1
    /\ Cardinality(Passing(Val(last))) = 2
    /\ Len(Val(last).result) = 1
    /\ \E p \in Passing(Val(last)) :
          Val(MatchOf(p, Val(last))).match_percentage
             < Val(last).result[1].match_percentage

\* C10: two calls with the same user, filters and limit and unchanged tables
\* return identical ordered lists, also when recipes share match_percentage
\* and title.
C10_Deterministic ==
    ~IsNone(prev) => Val(prev).result = Val(last).result

(***************************************************************************)
(* Properties of the match fields on large recipes (SpecPct)               *)
(***************************************************************************)
\* C4: 0 <= matched_ingredients <= total_required_ingredients, and the two
\* are equal exactly when the reported match_percentage is 100.0.
C4_MatchedIffHundred ==
    ~IsNone(pctOut) =>
        LET m == Val(pctOut) IN
        /\ 0 <= m.matched_ingredients
        /\ m.matched_ingredients <= m.total_required_ingredients
        /\ (m.matched_ingredients = m.total_required_ingredients)
              <=> (m.match_percentage = 100 * Hundredths)

(***************************************************************************)
(* Properties of the shopping list (SpecShop)                              *)
(***************************************************************************)
ShopCall ==
    /\ ~IsNone(response)
    /\ Val(response).handler = "get_recipe_shopping_list"

\* the pantry set of the caller of the answered request
CallerPantryIds == get_user_pantry_ingredient_ids(pantry_items, Val(response).user_id)

\* indexes of the rows of the requested recipe whose ingredient the caller
\* does not hold
AbsentRows ==
    {j \in 1..Len(recipes[Val(response).request].recipe_ingredients) :
        recipes[Val(response).request].recipe_ingredients[j].ingredient_id
            \notin CallerPantryIds}

\* C11: every ingredient id in missing_items is absent from the pantry set
\* used, and every ingredient id of the recipe that is absent from the pantry
\* set appears exactly once in missing_items, also when the recipe lists the
\* ingredient in more than one row.
C11_ExactlyOnce ==
    (ShopCall /\ Val(response).status = 200) =>
        LET missing_items == Val(Val(response).body).missing_items
            rows == recipes[Val(response).request].recipe_ingredients
        IN /\ \A k \in 1..Len(missing_items) :
                 missing_items[k].ingredient \notin CallerPantryIds
           /\ \A j \in AbsentRows :
                 Cardinality({k \in 1..Len(missing_items) :
                     missing_items[k].ingredient = rows[j].ingredient_id}) = 1

\* C12: the shopping list has one entry for every row of the recipe,
\* required or optional, whose ingredient is absent from the pantry, in the
\* order of the rows and with the row's quantity and unit; total_missing is
\* the number of entries.
C12_AllRowsInOrder ==
    (ShopCall /\ Val(response).status = 200) =>
        LET list == Val(Val(response).body)
            rows == recipes[Val(response).request].recipe_ingredients
        IN /\ Len(list.missing_items) = Cardinality(AbsentRows)
           /\ list.total_missing = Len(list.missing_items)
           /\ \A j \in AbsentRows :
                 LET k == Cardinality({i \in AbsentRows : i <= j}) IN
                 /\ list.missing_items[k].ingredient = rows[j].ingredient_id
                 /\ list.missing_items[k].quantity = rows[j].quantity
                 /\ list.missing_items[k].unit = rows[j].unit

\* Tomato is in the pantry; the required Chicken row and the optional Cheese
\* row behind it are both listed, each with its own quantity and unit
C12_Witness ==
    /\ ShopCall
    /\ Val(response).status = 200
    /\ 1 \in CallerPantryIds
    /\ Len(recipes[1].recipe_ingredients) = 3
    /\ recipes[1].recipe_ingredients[2].ingredient_id = 1
    /\ Val(Val(response).body).total_missing = 2
    /\ Val(Val(response).body).missing_items =
          << [ingredient |-> 2, quantity |-> None, unit |-> Some("pieces")],
             [ingredient |-> 3, quantity |-> Some("3"), unit |-> Some("cloves")] >>

\* C13: the request is answered 404, get_shopping_list having returned
\* None, exactly when no recipe has the id, whatever the pantry holds; for an
\* existing recipe a ShoppingList of that recipe is returned, also when
\* nothing is missing.
C13_NoneIffNoRecipe ==
    ShopCall =>
        LET r == Val(response) IN
        /\ r.status \in {200, 404}
        /\ (r.status = 404) <=> (r.request \notin 1..Len(recipes))
        /\ IsNone(r.body) <=> (r.request \notin 1..Len(recipes))
        /\ ~IsNone(r.body) =>
              /\ Val(r.body).recipe_id = r.request
              /\ Val(r.body).recipe_title = recipes[r.request].title

\* the pantry covers every row of the recipe: an empty list, answered 200
C13_Witness ==
    /\ ShopCall
    /\ Val(response).status = 200
    /\ Len(recipes[1].recipe_ingredients) = 2
    /\ AbsentRows = {}
    /\ Val(Val(response).body).missing_items = <<>>
    /\ Val(Val(response).body).total_missing = 0

(***************************************************************************)
(* Monotonicity of the dietary filter in the exclusion list (SpecMono)     *)
(***************************************************************************)
EntriesOf(exclude_allergens) ==
    IF IsNone(exclude_allergens) THEN {} ELSE Range(Val(exclude_allergens))

\* C14: for a fixed recipe and fixed flags, when the dietary check is False
\* for an exclusion list it is False for every list holding at least the
\* same entries: an added allergen never turns an incompatible recipe
\* compatible.
C14_MonotonicInExclusions ==
    dietOut = Some(FALSE) =>
        \A superset \in ExcludeLists :
            EntriesOf(dietIn.exclude_allergens) \subseteq EntriesOf(superset) =>
                ~check_dietary_compatibility(
                     dietIn.recipe_ingredients, dietIn.vegetarian,
                     dietIn.vegan, dietIn.gluten_free, superset)

\* Peanut noodles are rejected for "NUTS" alone, no flag requested: the
\* list with "dairy" added still rejects them
C14_Witness ==
    /\ dietOut = Some(FALSE)
    /\ ~dietIn.vegetarian /\ ~dietIn.vegan /\ ~dietIn.gluten_free
    /\ dietIn.exclude_allergens = Some(<< <<"N","U","T","S">> >>)
    /\ dietIn.recipe_ingredients = << [ingredient_id |-> 4, optional |-> FALSE] >>
    /\ Some(<< <<"N","U","T","S">>, <<"d","a","i","r","y">> >>) \in ExcludeLists

(***************************************************************************)
(* Properties of the pantry requests (SpecPantry)                          *)
(***************************************************************************)
Answered(handler) ==
    /\ ~IsNone(response)
    /\ Val(response).handler = handler

\* the user holds the ingredient in the given table
Holds(items, user_id, ingredient_id) ==
    \E q \in items : q.user_id = user_id /\ q.ingredient_id = ingredient_id

PantryBefore == Val(response).before.pantry_items

\* C16: no user has two pantry items with the same ingredient_id, whatever
\* requests were served (a bulk request naming an ingredient twice
\* included), and POST /pantry for an ingredient the caller already holds is
\* answered 400 and adds nothing.
C16_OncePerUser ==
    /\ \A p, q \in pantry_items :
          (p.user_id = q.user_id /\ p.ingredient_id = q.ingredient_id)
             => p.id = q.id
    /\ Answered("add_pantry_item") =>
          (Holds(PantryBefore, Val(response).user_id,
                 Val(response).request.ingredient_id)
             => /\ Val(response).status = 400
                /\ pantry_items = PantryBefore)

\* C18: a bulk request in which some item names an ingredient id that does
\* not exist is answered 400 and leaves the pantry as it was, the valid items
\* in front of the invalid one included.
C18_BulkAllOrNothing ==
    Answered("add_pantry_items_bulk") =>
        LET r == Val(response) IN
        (\E k \in 1..Len(r.request) :
             r.request[k].ingredient_id \notin IngredientIds)
          => /\ r.status = 400
             /\ pantry_items = PantryBefore

\* the entries of the bulk request whose ingredient the caller did not hold
\* when the request arrived
NewEntries ==
    {k \in 1..Len(Val(response).request) :
        ~Holds(PantryBefore, Val(response).user_id,
               Val(response).request[k].ingredient_id)}

\* C19: a bulk request whose ingredient ids all exist creates and returns
\* one pantry item for each entry whose ingredient the caller did not hold
\* before, and changes nothing else: the rows that existed, of the caller and
\* of every other user, stay as they were; with nothing new it returns the
\* empty list.
C19_BulkSkipsExisting ==
    Answered("add_pantry_items_bulk") =>
        LET r == Val(response) IN
        (\A k \in 1..Len(r.request) :
             r.request[k].ingredient_id \in IngredientIds)
          => /\ r.status = 201
             /\ ~IsNone(r.body)
             /\ Len(Val(r.body)) = Cardinality(NewEntries)
             /\ \A k \in NewEntries :
                   LET item == Val(r.body)[Cardinality({i \in NewEntries : i <= k})]
                   IN /\ item.user_id = r.user_id
                      /\ item.ingredient_id = r.request[k].ingredient_id
                      /\ item.quantity = r.request[k].quantity
                      /\ item.unit = r.request[k].unit
                      /\ item.expiration_date = r.request[k].expiration_date
                      /\ \A q \in PantryBefore : q.id # item.id
             /\ \A i, j \in 1..Len(Val(r.body)) :
                   Val(r.body)[i].id = Val(r.body)[j].id => i = j
             /\ pantry_items = PantryBefore \cup Range(Val(r.body))

\* the item id a request on /pantry/{item_id} names
ItemIdOf(r) ==
    IF r.handler = "update_pantry_item_endpoint" THEN r.request.item_id
    ELSE r.request

OfOthers(items, user_id) == {q \in items : q.user_id # user_id}

\* C20: GET, PATCH and DELETE on /pantry/{id} for an item of another user
\* are answered 404 and leave the table as it was; no pantry request changes
\* a row of a user other than the caller; GET /pantry returns rows of the
\* caller only.
C20_IsolatedPerUser ==
    /\ \A h \in {"get_pantry_item", "update_pantry_item_endpoint",
                 "remove_pantry_item"} :
          Answered(h) =>
             LET r == Val(response) IN
             (\E q \in PantryBefore : q.id = ItemIdOf(r) /\ q.user_id # r.user_id)
               => /\ r.status = 404
                  /\ IsNone(r.body)
                  /\ pantry_items = PantryBefore
    /\ \A h \in {"add_pantry_item", "add_pantry_items_bulk", "get_pantry_item",
                 "update_pantry_item_endpoint", "remove_pantry_item",
                 "list_pantry_items"} :
          Answered(h) =>
             OfOthers(pantry_items, Val(response).user_id)
                = OfOthers(PantryBefore, Val(response).user_id)
    /\ Answered("list_pantry_items") =>
          \A k \in 1..Len(Val(Val(response).body)) :
              /\ Val(Val(response).body)[k].user_id = Val(response).user_id
              /\ Val(Val(response).body)[k] \in pantry_items

\* user 2 sends PATCH for the item of user 1: 404, the item as it was
C20_Witness ==
    /\ Answered("update_pantry_item_endpoint")
    /\ Val(response).user_id = 2
    /\ Val(response).status = 404
    /\ \E q \in pantry_items :
          /\ q.id = Val(response).request.item_id
          /\ q.user_id = 1
          /\ q \in PantryBefore
    /\ \E q \in pantry_items : q.user_id = 2

(***************************************************************************)
(* Properties of a recommendation call among pantry requests (SpecRace)    *)
(***************************************************************************)
\* C15: under every interleaving with pantry requests of the same user, one
\* get_recipe_recommendations call works on a single snapshot, so that every
\* ingredient id of the expiring set it uses is in the pantry set it uses
\* and uses_expiring_ingredients <= matched_ingredients in every match.
C15_SingleSnapshot ==
    Answered("get_recommendations") =>
        LET r == Val(response) IN
        /\ r.read.expiring_ids \subseteq r.read.pantry_ingredient_ids
        /\ \A k \in 1..Len(Val(r.body)) :
              ExpiringOf(Val(r.body)[k]) <= Val(r.body)[k].matched_ingredients

(***************************************************************************)
(* Properties of the favorites requests (SpecFav)                          *)
(***************************************************************************)
\* the favorites of the recipe the user has in a table
FavoritesOf(favs, user_id, recipe_id) ==
    {f \in favs : f.user_id = user_id /\ f.recipe_id = recipe_id}

\* C17: whatever POST and DELETE /favorites/{recipe_id} requests were served,
\* and however their statements interleaved, no user has two favorites of one
\* recipe.  POST for a recipe that does not exist, or for one that is among
\* the caller's favorites, is answered 400 and leaves the favorites as they
\* were; a 201 adds exactly the one favorite.  DELETE for a recipe that is
\* not among the caller's favorites is answered 404 and leaves all favorites
\* as they were.
C17_FavoritedOnce ==
    /\ \A f, g \in favorites :
          (f.user_id = g.user_id /\ f.recipe_id = g.recipe_id) => f = g
    /\ Answered("add_to_favorites") =>
          LET r == Val(response)
              held == FavoritesOf(r.before.favorites, r.user_id, r.request)
          IN /\ r.request \notin 1..Len(r.before.recipes) =>
                   r.status = 400 /\ favorites = r.before.favorites
             /\ ~IsNone(r.read) =>
                   r.status = 400 /\ favorites = r.before.favorites
             /\ held # {} =>
                   r.status = 400 /\ favorites = r.before.favorites
             /\ r.status = 201 =>
                   /\ held = {}
                   /\ Cardinality(favorites \ r.before.favorites) = 1
                   /\ r.before.favorites \subseteq favorites
                   /\ Cardinality(FavoritesOf(favorites, r.user_id, r.request)) = 1
    /\ Answered("remove_from_favorites") =>
          LET r == Val(response)
          IN FavoritesOf(r.before.favorites, r.user_id, r.request) = {} =>
                r.status = 404 /\ favorites = r.before.favorites

(***************************************************************************)
(* Properties of the filters (SpecFilter)                                  *)
(***************************************************************************)
\* the five filter predicates, each on its own
DifficultyOk(recipe, a) ==
    IsNone(a.difficulty) \/ recipe.difficulty_level = a.difficulty

MinutesOf(t) == IF IsNone(t) THEN 0 ELSE Val(t)

TimeOk(recipe, a) ==
    \/ IsNone(a.max_total_time)
    \/ MinutesOf(recipe.prep_time) + MinutesOf(recipe.cook_time)
          <= Val(a.max_total_time)

DietaryOk(recipe, a) == DietaryOf(recipe.recipe_ingredients, a)

MissingOk(recipe, c) ==
    \/ IsNone(c.args.max_missing_ingredients)
    \/ RequiredCount(recipe) - MatchedCount(recipe, c.pantry_ingredient_ids)
          <= Val(c.args.max_missing_ingredients)

\* the call returned every recipe that passed: nothing was cut by limit
Untruncated(c) == c.args.limit >= Len(recipes)

\* C21: with a difficulty filter only recipes whose difficulty_level equals
\* it are returned, so a recipe without difficulty_level is left out; without
\* a difficulty filter such a recipe is returned exactly when it passes the
\* other filters.
C21_DifficultyFilter ==
    (~IsNone(last) /\ Untruncated(Val(last))) =>
        LET c == Val(last) IN
        /\ ~IsNone(c.args.difficulty) =>
              \A i \in 1..Len(recipes) :
                  Returned(i, c) =>
                      recipes[i].difficulty_level = c.args.difficulty
        /\ IsNone(c.args.difficulty) =>
              \A i \in 1..Len(recipes) :
                  IsNone(recipes[i].difficulty_level) =>
                      (Returned(i, c) <=>
                          /\ TimeOk(recipes[i], c.args)
                          /\ DietaryOk(recipes[i], c.args)
                          /\ UnroundedAtLeast(recipes[i], c)
                          /\ MissingOk(recipes[i], c))

\* difficulty "easy" asked: a recipe without difficulty_level that passes
\* every other filter is left out
C21_Witness ==
    /\ ~IsNone(last)
    /\ Val(last).args.difficulty = Some("easy")
    /\ Len(recipes) >= 1
    /\ IsNone(recipes[1].difficulty_level)
    /\ TimeOk(recipes[1], Val(last).args)
    /\ DietaryOk(recipes[1], Val(last).args)
    /\ UnroundedAtLeast(recipes[1], Val(last))
    /\ MissingOk(recipes[1], Val(last))
    /\ ~Returned(1, Val(last))

\* C22: with max_total_time given, a recipe that passes the other filters is
\* left out exactly when prep_time + cook_time, None counted as 0, is greater
\* than the cap; no returned recipe exceeds the cap, and a recipe without
\* times exceeds no cap.
C22_TimeFilter ==
    (~IsNone(last) /\ Untruncated(Val(last))
        /\ ~IsNone(Val(last).args.max_total_time)) =>
        LET c == Val(last)
            cap == Val(c.args.max_total_time)
        IN \A i \in 1..Len(recipes) :
              LET total == MinutesOf(recipes[i].prep_time)
                             + MinutesOf(recipes[i].cook_time)
              IN /\ Returned(i, c) => total <= cap
                 /\ (/\ DifficultyOk(recipes[i], c.args)
                     /\ DietaryOk(recipes[i], c.args)
                     /\ UnroundedAtLeast(recipes[i], c)
                     /\ MissingOk(recipes[i], c))
                       => (~Returned(i, c) <=> total > cap)
                 /\ (IsNone(recipes[i].prep_time) /\ IsNone(recipes[i].cook_time))
                       => total <= cap

\* cap 30: the recipe with 10 + 20 minutes is returned
C22_Witness ==
    /\ ~IsNone(last)
    /\ Val(last).args.max_total_time = Some(30)
    /\ Len(recipes) >= 1
    /\ recipes[1].prep_time = Some(10)
    /\ recipes[1].cook_time = Some(20)
    /\ Returned(1, Val(last))

MissingIds(recipe, ids) ==
    LET rows == SelectSeq(recipe.recipe_ingredients,
                    LAMBDA ri : ~ri.optional /\ ri.ingredient_id \notin ids)
    IN [k \in 1..Len(rows) |-> rows[k].ingredient_id]

\* C27: in every returned match, matched_ingredients plus the length of
\* missing_ingredients is total_required_ingredients, and
\* missing_ingredients lists exactly the required rows whose ingredient is
\* not in the pantry set, in the order of the recipe's rows.
C27_MatchedPlusMissing ==
    ~IsNone(last) =>
        LET c == Val(last) IN
        \A m \in Entries(c) :
            /\ m.matched_ingredients + Len(m.missing_ingredients)
                  = m.total_required_ingredients
            /\ m.total_required_ingredients = RequiredCount(recipes[m.id])
            /\ m.missing_ingredients
                  = MissingIds(recipes[m.id], c.pantry_ingredient_ids)

\* three required rows, one ingredient in the pantry, two different ones
\* missing
C27_Witness ==
    /\ ~IsNone(last)
    /\ \E m \in Entries(Val(last)) :
          /\ m.total_required_ingredients = 3
          /\ m.matched_ingredients = 1
          /\ Len(m.missing_ingredients) = 2
          /\ m.missing_ingredients[1] # m.missing_ingredients[2]
          /\ HasOptionalRow(recipes[m.id]) = FALSE

(***************************************************************************)
(* Properties of the enumeration order of the recipes (Spec)               *)
(***************************************************************************)
\* C24: the result does not depend on the order in which the recipes are
\* enumerated: whatever order the query delivers the catalog in, the call
\* returns the list it returned.
C24_OrderIndependent ==
    ~IsNone(last) =>
        LET c == Val(last) IN
        \A o \in Orders(recipes) :
            get_recipe_recommendations(recipes, pantry_items, c.user_id,
                                       c.args, o) = c.result

(***************************************************************************)
(* Properties of the expiring items (SpecExp)                              *)
(***************************************************************************)
\* the user holds the ingredient with a date from today to today + days
DueWithin(user_id, ingredient_id, days) ==
    \E q \in pantry_items :
        /\ q.user_id = user_id
        /\ q.ingredient_id = ingredient_id
        /\ ~IsNone(q.expiration_date)
        /\ Today <= Val(q.expiration_date)
        /\ Val(q.expiration_date) <= Today + days

\* C23: get_expiring_ingredient_ids(user, days) returns exactly the
\* ingredient ids of the user's pantry items dated from today to today + days,
\* both days included: undated, expired and later items are left out and the
\* result is within the user's pantry set.  get_recipe_recommendations uses
\* this set, for 7 days, when prioritize_expiring is true and the empty set
\* otherwise.
C23_ExpiringWindow ==
    /\ Answered("get_expiring_ingredient_ids") =>
          LET r == Val(response) IN
          /\ Val(r.body) = {i \in IngredientIds :
                               DueWithin(r.user_id, i, r.request.days)}
          /\ Val(r.body) \subseteq
                {q.ingredient_id : q \in {p \in pantry_items :
                                             p.user_id = r.user_id}}
    /\ ~IsNone(last) =>
          LET c == Val(last) IN
          /\ c.args.prioritize_expiring =>
                /\ c.expiring_ids = {i \in IngredientIds :
                                        DueWithin(c.user_id, i, 7)}
                /\ c.expiring_ids \subseteq c.pantry_ingredient_ids
          /\ ~c.args.prioritize_expiring => c.expiring_ids = {}

\* user 1 holds ingredient 1 dated today + 7 and ingredient 2 dated
\* yesterday, user 2 holds ingredient 1 dated today: for user 1 and 7 days
\* the set is {1}
C23_Witness ==
    /\ Answered("get_expiring_ingredient_ids")
    /\ Val(response).user_id = 1
    /\ Val(response).request.days = 7
    /\ Val(Val(response).body) = {1}
    /\ [user_id |-> 1, ingredient_id |-> 1,
        expiration_date |-> Some(Today + 7)] \in pantry_items
    /\ [user_id |-> 1, ingredient_id |-> 2,
        expiration_date |-> Some(Today - 1)] \in pantry_items
    /\ [user_id |-> 2, ingredient_id |-> 1,
        expiration_date |-> Some(Today)] \in pantry_items

\* C30: for one user, one state of the tables, one day and one day count,
\* the ingredient ids of the items GET /pantry/expiring returns are the set
\* get_expiring_ingredient_ids returns, also when the pantry holds items
\* whose date has passed.
C30_ExpiringAgree ==
    Answered("list_expiring_items") =>
        LET r == Val(response)
            items == Val(r.body)
        IN {items[k].ingredient_id : k \in 1..Len(items)}
              = get_expiring_ingredient_ids(pantry_items, r.user_id,
                                            r.request.days)

(***************************************************************************)
(* Properties of recommendations and shopping lists between pantry         *)
(* requests (SpecMix)                                                      *)
(***************************************************************************)
\* C26: get_recipe_recommendations and get_shopping_list write nothing: when
\* GET /recommendations or GET /recommendations/{id}/shopping-list has been
\* answered, found or not found, the recipes with their rows, the pantry
\* items and the favorites are what they were when the request arrived.
C26_ReadOnly ==
    (Answered("get_recommendations") \/ Answered("get_recipe_shopping_list")) =>
        Tables = Val(response).before

\* a shopping list asked for a recipe that does not exist, after pantry
\* items were added
C26_Witness ==
    /\ Answered("get_recipe_shopping_list")
    /\ Val(response).status = 404
    /\ Cardinality(pantry_items) >= 2
    /\ Tables = Val(response).before

\* a is b with some entries left out
RECURSIVE IsSubList(_, _)
IsSubList(a, b) ==
    IF a = <<>> THEN TRUE
    ELSE IF b = <<>> THEN FALSE
    ELSE IF Head(a) = Head(b) THEN IsSubList(Tail(a), Tail(b))
    ELSE IsSubList(a, Tail(b))

\* the match of recipe i for the user on a pantry table, no filter given
MatchOn(i, items, user_id) ==
    Val(EvaluateRecipe(i, recipes[i],
                       get_user_pantry_ingredient_ids(items, user_id), {},
                       NoFilter))

\* C28: after POST /pantry added an item for user u, every recipe's
\* matched_ingredients and match_percentage for u are at least what they
\* were, its missing_ingredients are a sub-list of the earlier list, its
\* total_required_ingredients is the same, and total_missing of each of u's
\* shopping lists is at most what it was.
C28_MonotonicInPantry ==
    (Answered("add_pantry_item") /\ Val(response).status = 201) =>
        LET u == Val(response).user_id
            old == Val(response).before.pantry_items
        IN \A i \in 1..Len(recipes) :
              LET m0 == MatchOn(i, old, u)
                  m1 == MatchOn(i, pantry_items, u)
                  s0 == Val(get_shopping_list(recipes, old, u, i))
                  s1 == Val(get_shopping_list(recipes, pantry_items, u, i))
              IN /\ m1.matched_ingredients >= m0.matched_ingredients
                 /\ m1.match_percentage >= m0.match_percentage
                 /\ IsSubList(m1.missing_ingredients, m0.missing_ingredients)
                 /\ m1.total_required_ingredients = m0.total_required_ingredients
                 /\ s1.total_missing <= s0.total_missing

\* user 1, holding Tomato, adds Cheese: Soup goes from 1 of 3 to 2 of 3,
\* Cheese leaves its missing list
C28_Witness ==
    /\ Answered("add_pantry_item")
    /\ Val(response).status = 201
    /\ Val(response).user_id = 1
    /\ MatchOn(1, Val(response).before.pantry_items, 1).matched_ingredients = 1
    /\ MatchOn(1, Val(response).before.pantry_items, 1).missing_ingredients = <<3, 2>>
    /\ MatchOn(1, pantry_items, 1).matched_ingredients = 2
    /\ MatchOn(1, pantry_items, 1).missing_ingredients = <<2>>

\* the pantry items of the user
OwnItems(items, user_id) == {q \in items : q.user_id = user_id}

\* C29: what GET /recommendations and the shopping list return for user u
\* is what they return when the pantry items of all other users are taken
\* away, with prioritize_expiring true as well as false: two tables that
\* agree on the catalog and on u's items give u the same results.
C29_OtherUsersIrrelevant ==
    /\ Answered("get_recommendations") =>
          LET r == Val(response)
              own == OwnItems(r.before.pantry_items, r.user_id)
          IN /\ \A o \in Orders(recipes) :
                   get_recipe_recommendations(recipes, r.before.pantry_items,
                                              r.user_id, r.request, o)
                     = get_recipe_recommendations(recipes, own, r.user_id,
                                                  r.request, o)
             /\ \E o \in Orders(recipes) :
                   Val(r.body) = get_recipe_recommendations(recipes, own,
                                     r.user_id, r.request, o)
    /\ Answered("get_recipe_shopping_list") =>
          LET r == Val(response)
          IN r.body = get_shopping_list(r.before.recipes,
                          OwnItems(r.before.pantry_items, r.user_id),
                          r.user_id, r.request)

\* user 1 holds nothing, user 2 holds dated Cheese: user 1 asks with
\* prioritize_expiring and gets salad with nothing matched
C29_Witness ==
    /\ Answered("get_recommendations")
    /\ Val(response).user_id = 1
    /\ Val(response).request.prioritize_expiring
    /\ OwnItems(pantry_items, 1) = {}
    /\ \E q \in pantry_items :
          q.user_id = 2 /\ q.ingredient_id = 3 /\ ~IsNone(q.expiration_date)
    /\ \E k \in 1..Len(Val(Val(response).body)) :
          /\ Val(Val(response).body)[k].title = salad
          /\ Val(Val(response).body)[k].matched_ingredients = 0
          /\ Val(Val(response).body)[k].uses_expiring_ingredients = Some(0)

====
